---- MODULE Spec2Model ----
(***************************************************************************)
(* A model of the Telegram print bot: the booklet signature/imposition     *)
(* arithmetic (printing.py), the spooler submission with its fallback      *)
(* (printing.py), the per-user session dialogue (handlers.py), the         *)
(* conversions (conversion.py), the scans (scanning.py) and the sweep of   *)
(* the temporary directory (utils.py).                                     *)
(*                                                                         *)
(* The specifications share the variables:                                 *)
(*   SpecBooklet  calculate_signature_config and                           *)
(*                create_booklet_for_short_edge on drawn inputs;           *)
(*   SpecPrint    print_file_postscript on drawn inputs;                   *)
(*   Spec         the handlers of bot.py, one update at a time;            *)
(*   SpecConvert  one upload from its routing to its session;              *)
(*   SpecRunner   one external command under run_subprocess;               *)
(*   SpecScan     one scan, from the detection to the pages returned;      *)
(*   SpecSweep    the temporary directory while the process runs;          *)
(*   SpecAccess   the handlers of bot.py behind their allow-list checks.   *)
(***************************************************************************)
EXTENDS Integers, Sequences, FiniteSets, TLC

VARIABLES
    user_data,   \* context.user_data of every user (handlers.py)
    files,       \* the canonical PDFs (temp_*.pdf) that exist on disk
    sig_files,   \* the imposed signature files (temp_*.pdf) that exist on disk
    last,        \* what the last handled update did (history of one step)
    bk,          \* one run of the booklet arithmetic (SpecBooklet)
    pf,          \* one call of print_file_postscript (SpecPrint)
    cv,          \* one conversion of an upload to its PDF (SpecConvert)
    pr,          \* one command under run_subprocess (SpecRunner)
    sc,          \* one scan (SpecScan)
    sw,          \* the temporary directory and its sweep (SpecSweep)
    bot_data     \* context.bot_data: the allow-list (SpecAccess)

vars == <<user_data, files, sig_files, last, bk, pf, cv, pr, sc, sw, bot_data>>

----------------------------------------------------------------------------
(* Bounds of the model *)

MaxPages == 60        \* page counts drawn for the booklet arithmetic
MaxDefault == 8       \* default_sheets drawn for the booklet arithmetic
MaxRangeLen == 3      \* length of the page_range strings drawn
MaxFiles == 2         \* temp_*.pdf files that may exist at once in Spec
MaxTextLen == 1       \* length of the text messages drawn in Spec (and ExampleTexts)

(* Program constants *)

SIGNATURE_THRESHOLD == 29              \* printing.py:20
DEFAULT_SHEETS_PER_SIGNATURE == 5      \* config.py:29

----------------------------------------------------------------------------
(* Helpers *)

Min(a, b) == IF a < b THEN a ELSE b

\* math.ceil(a / b) for naturals a, b > 0
Ceil(a, b) == (a + b - 1) \div b

Range(s) == {s[i] : i \in 1..Len(s)}

RECURSIVE SeqsUpTo(_, _)
\* every sequence over S of length at most n
SeqsUpTo(S, n) ==
    IF n = 0 THEN {<< >>}
    ELSE LET shorter == SeqsUpTo(S, n - 1)
         IN  shorter \cup {Append(s, c) : s \in shorter, c \in S}

----------------------------------------------------------------------------
(* printing.py: the booklet arithmetic *)

\* Fault injection: the single signature is not capped by default_sheets.
calculate_signature_config_uncapped(page_count, default_sheets) ==
    LET total_sheets == Ceil(page_count, 4)
    IN  IF page_count < SIGNATURE_THRESHOLD
        THEN <<1, total_sheets, total_sheets, total_sheets>>
        ELSE LET num_signatures == Ceil(total_sheets, default_sheets)
             IN  <<num_signatures, default_sheets, total_sheets,
                   default_sheets * num_signatures>>

\* Fault injection: the threshold test is <= instead of <.
calculate_signature_config_inclusive(page_count, default_sheets) ==
    LET total_sheets == Ceil(page_count, 4)
    IN  IF page_count <= SIGNATURE_THRESHOLD
        THEN LET sheets_per_signature == Min(total_sheets, default_sheets)
             IN  <<1, sheets_per_signature, total_sheets, sheets_per_signature>>
        ELSE LET num_signatures == Ceil(total_sheets, default_sheets)
             IN  <<num_signatures, default_sheets, total_sheets,
                   default_sheets * num_signatures>>

\* (num_signatures, sheets_per_signature, total_sheets, total_sheets_with_blanks)
calculate_signature_config(page_count, default_sheets) ==
    LET total_sheets == Ceil(page_count, 4)
    IN  IF page_count < SIGNATURE_THRESHOLD
        THEN LET sheets_per_signature == Min(total_sheets, default_sheets)
             IN  <<1, sheets_per_signature, total_sheets, sheets_per_signature>>
        ELSE LET sheets_per_signature == default_sheets
                 num_signatures == Ceil(total_sheets, sheets_per_signature)
             IN  <<num_signatures, sheets_per_signature, total_sheets,
                   sheets_per_signature * num_signatures>>

RECURSIVE signature_configs_from(_, _, _, _)
\* the while loop of create_booklet_for_short_edge, from current_page on
signature_configs_from(current_page, num_pages, sheets_per_signature, acc) ==
    IF ~(current_page < num_pages) THEN acc
    ELSE LET pages_per_sig == sheets_per_signature * 4
             end_page == Min(current_page + pages_per_sig, num_pages)
             actual_pages == end_page - current_page
         IN  signature_configs_from(end_page, num_pages, sheets_per_signature,
                 Append(acc, [start |-> current_page,
                              end |-> end_page,
                              total_pages_needed |-> pages_per_sig,
                              actual_pages |-> actual_pages,
                              sheets |-> sheets_per_signature,
                              empty_pages |-> pages_per_sig - actual_pages]))

\* Fault injection: a last window that is not full is left out.
signature_configs_full_only(num_pages, sheets_per_signature) ==
    SelectSeq(signature_configs_from(0, num_pages, sheets_per_signature, << >>),
              LAMBDA config : config.empty_pages = 0)

signature_configs(num_pages, sheets_per_signature) ==
    signature_configs_from(0, num_pages, sheets_per_signature, << >>)

\* Fault injection: the odd sides take their right page one position too far out.
booklet_pages_shifted(total_pages) ==
    [k \in 1..(total_pages \div 2) |->
        LET i == k - 1
        IN  IF i % 2 = 0
            THEN [left |-> total_pages - i - 1, right |-> i]
            ELSE [left |-> i, right |-> total_pages - i]]

\* Fault injection: the back of every sheet has its two pages exchanged.
booklet_pages_mirrored(total_pages) ==
    [k \in 1..(total_pages \div 2) |->
        LET i == k - 1
        IN  [left |-> total_pages - i - 1, right |-> i]]

\* The (left, right) positions of every imposed side of one signature, in the
\* order the sides are written; positions index the signature's page list.
booklet_pages(total_pages) ==
    [k \in 1..(total_pages \div 2) |->
        LET i == k - 1
        IN  IF i % 2 = 0
            THEN [left |-> total_pages - i - 1, right |-> i]
            ELSE [left |-> i, right |-> total_pages - i - 1]]

\* One imposed signature file: its window of the document and its sides.
\* A position at or beyond actual_pages holds a synthesized blank page.
imposed_signature(config) ==
    [start |-> config.start,
     end |-> config.end,
     actual_pages |-> config.actual_pages,
     empty_pages |-> config.empty_pages,
     sides |-> booklet_pages(config.total_pages_needed)]

\* The files create_booklet_for_short_edge returns.  fail_at is the index
\* of the signature whose imposition raises (0: none raises); any exception
\* makes the function return the empty list.
create_booklet_for_short_edge(num_pages, sheets_per_signature, fail_at) ==
    LET configs == signature_configs(num_pages, sheets_per_signature)
    IN  IF fail_at \in 1..Len(configs) THEN << >>
        ELSE [k \in 1..Len(configs) |-> imposed_signature(configs[k])]

----------------------------------------------------------------------------
(* printing.py: print_file_postscript *)

\* A page range is a sequence of characters.  The empty sequence stands for
\* both None and "": the code only tests the range's truth value
\* (printing.py:120, handlers.py:437).
None == << >>

DIGITS == {"1"}

\* The ways subprocess.run(cmd, timeout=...) can end.
RunOutcomes == {"exit0", "nonzero", "timeout", "spawn_fail"}

\* Python's $ matches at the end of the string and also just before a
\* newline that ends the string.
AtDollar(s, k) ==
    \/ k = Len(s)
    \/ k = Len(s) - 1 /\ s[Len(s)] = "\n"

\* re.match(r'^[\d,\-]+$', page_range)
page_range_charset_ok(page_range) ==
    \E k \in 1..Len(page_range) :
        /\ \A i \in 1..k : page_range[i] \in DIGITS \cup {",", "-"}
        /\ AtDollar(page_range, k)

RECURSIVE range_dfa(_, _, _, _)
\* The automaton of (\d+(-\d+)?)(,\d+(-\d+)?)* run over s[i..n]:
\* "start" expects a token, "d1" is in a token's first number, "h" has
\* read its hyphen, "d2" is in its second number.
range_dfa(s, i, n, q) ==
    IF i > n THEN q \in {"d1", "d2"}
    ELSE LET c == s[i]
             next == IF c \in DIGITS
                         THEN (IF q \in {"start", "d1"} THEN "d1" ELSE "d2")
                     ELSE IF c = "-" /\ q = "d1" THEN "h"
                     ELSE IF c = "," /\ q \in {"d1", "d2"} THEN "start"
                     ELSE "reject"
         IN  next # "reject" /\ range_dfa(s, i + 1, n, next)

\* Fault injection: only the characters of the text are checked.
page_range_syntax_ok_lax(text) == page_range_charset_ok(text)

\* re.match(r'^(\d+(-\d+)?)(,\d+(-\d+)?)*$', text)
page_range_syntax_ok(text) ==
    \E k \in 1..Len(text) : AtDollar(text, k) /\ range_dfa(text, 1, k, "start")

\* Fault injection: the duplex flag is read before the booklet flag.
duplex_options_duplex_first(booklet, duplex) ==
    IF duplex THEN {"sides=two-sided-long-edge", "Duplex=DuplexNoTumble"}
    ELSE IF booklet THEN {"sides=two-sided-short-edge", "Duplex=DuplexTumble"}
    ELSE {"sides=one-sided", "Duplex=None"}

\* The duplex options of the primary command (printing.py:97-105).
duplex_options(booklet, duplex) ==
    IF booklet THEN {"sides=two-sided-short-edge", "Duplex=DuplexTumble"}
    ELSE IF duplex THEN {"sides=two-sided-long-edge", "Duplex=DuplexNoTumble"}
    ELSE {"sides=one-sided", "Duplex=None"}

quality_option(booklet) == IF booklet THEN "Quality=300dpi" ELSE "Quality=600dpi"

\* The lp command of printing.py:96-127; page_ranges is the value of its
\* page-ranges option (None: the option is absent).
primary_cmd(file_path, booklet, duplex, page_range) ==
    [which |-> "primary",
     options |-> {"PageSize=A4"} \cup duplex_options(booklet, duplex)
                 \cup {quality_option(booklet)}
                 \cup {"JCLEconomode=Off", "InputSlot=Auto", "MediaType=Plain",
                       "ColorModel=Gray", "fit-to-page",
                       "document-format=application/pdf"},
     page_ranges |-> page_range,
     file |-> file_path]

\* The simplified lp command of printing.py:139.
simple_cmd(file_path) ==
    [which |-> "simple",
     options |-> {"PageSize=A4", "fit-to-page"},
     page_ranges |-> None,
     file |-> file_path]

\* Fault injection: the outcome of the simplified command is ignored.
print_file_postscript_blind(file_path, booklet, duplex, page_range, o1, o2) ==
    LET primary == [cmd |-> primary_cmd(file_path, booklet, duplex, page_range),
                    outcome |-> o1]
        simple == [cmd |-> simple_cmd(file_path), outcome |-> o2]
    IN  IF page_range # None /\ ~page_range_charset_ok(page_range)
    THEN [ret |-> FALSE, runs |-> << >>]
    ELSE IF o1 = "nonzero" THEN [ret |-> TRUE, runs |-> <<primary, simple>>]
    ELSE [ret |-> (o1 = "exit0"), runs |-> <<primary>>]

\* print_file_postscript: o1 is how the primary command ends, o2 how the
\* simplified command ends if it is run.  The result is the value returned
\* and the commands that were run, in order, each with its outcome.
print_file_postscript(file_path, booklet, duplex, page_range, o1, o2) ==
    LET primary == [cmd |-> primary_cmd(file_path, booklet, duplex, page_range),
                    outcome |-> o1]
        simple == [cmd |-> simple_cmd(file_path), outcome |-> o2]
    IN  IF page_range # None /\ ~page_range_charset_ok(page_range)
        THEN [ret |-> FALSE, runs |-> << >>]                  \* lines 122-124
        ELSE IF o1 = "exit0"
        THEN [ret |-> TRUE, runs |-> <<primary>>]             \* lines 132-134
        ELSE IF o1 = "nonzero"
        THEN [ret |-> (o2 = "exit0"), runs |-> <<primary, simple>>]  \* 135-141
        ELSE [ret |-> FALSE, runs |-> <<primary>>]            \* lines 142-147

----------------------------------------------------------------------------
(* The state of the session dialogue (handlers.py) *)

Users == {"A", "B"}

\* No file: the value of an absent 'pdf_path' key.
NoPath == 0

\* context.user_data after clear().  The eight keys are set together
\* (handlers.py:240-249) and removed together, so an absent 'pdf_path'
\* stands for the empty dict.  file_name, is_pdf, is_office and is_image
\* are left out: they are read only to word a message and to pick the
\* keyboard shown (handlers.py:260-261, 308, 404-405), and every button of
\* every keyboard can be pressed whatever keyboard was shown last.
NoSession ==
    [pdf_path |-> NoPath, page_count |-> 0,
     awaiting_custom_range |-> FALSE, print_mode |-> "none"]

\* Nothing handled yet.
NoStep ==
    [handler |-> "none", user |-> "none", branch |-> "none",
     artifact |-> NoPath, prints |-> << >>, deleted |-> {}, reply |-> "none"]

BkIdle ==
    [phase |-> "idle", page_count |-> 0, default_sheets |-> 0,
     config |-> <<0, 0, 0, 0>>, failed |-> FALSE, output |-> << >>]

PfIdle ==
    [phase |-> "idle", booklet |-> FALSE, duplex |-> FALSE,
     page_range |-> None, ret |-> FALSE, runs |-> << >>]

CvIdle == [phase |-> "idle"]

PrIdle == [phase |-> "idle"]

ScIdle == [phase |-> "idle"]

SwIdle == [phase |-> "idle"]

\* bot.py:63-68 with every user of the model on the allow-list.
EveryoneAllowed == [allowed_users |-> Users]

SessionIdle ==
    /\ user_data = [u \in Users |-> NoSession]
    /\ files = {}
    /\ sig_files = {}
    /\ last = NoStep
    /\ bot_data = EveryoneAllowed

----------------------------------------------------------------------------
(* SpecBooklet: the booklet arithmetic on drawn inputs *)

InitBooklet ==
    /\ SessionIdle
    /\ pf = PfIdle
    /\ cv = CvIdle /\ pr = PrIdle /\ sc = ScIdle /\ sw = SwIdle
    /\ \E page_count \in 1..MaxPages, default_sheets \in 1..MaxDefault :
           bk = [BkIdle EXCEPT !.phase = "input",
                               !.page_count = page_count,
                               !.default_sheets = default_sheets]

\* handlers.py:352-354
Configure ==
    /\ bk.phase = "input"
    /\ bk' = [bk EXCEPT !.phase = "configured",
                        !.config = calculate_signature_config(
                                       bk.page_count, bk.default_sheets)]
    /\ UNCHANGED <<user_data, files, sig_files, last, pf, cv, pr, sc, sw, bot_data>>

\* handlers.py:367: the booklet is created with the configured
\* sheets_per_signature; the imposition of any signature may raise.
Impose ==
    /\ bk.phase = "configured"
    /\ \E fail_at \in 0..Len(signature_configs(bk.page_count, bk.config[2])) :
           bk' = [bk EXCEPT !.phase = "imposed",
                            !.failed = (fail_at # 0),
                            !.output = create_booklet_for_short_edge(
                                           bk.page_count, bk.config[2], fail_at)]
    /\ UNCHANGED <<user_data, files, sig_files, last, pf, cv, pr, sc, sw, bot_data>>

NextBooklet == Configure \/ Impose

SpecBooklet == InitBooklet /\ [][NextBooklet]_vars

----------------------------------------------------------------------------
(* SpecPrint: print_file_postscript on drawn inputs *)

RangeChars == DIGITS \cup {",", "-", ";", "a", "\n"}

PageRanges == SeqsUpTo(RangeChars, MaxRangeLen)

\* The file printed in SpecPrint.
SomeFile == 1

InitPrint ==
    /\ SessionIdle
    /\ bk = BkIdle
    /\ cv = CvIdle /\ pr = PrIdle /\ sc = ScIdle /\ sw = SwIdle
    /\ \E booklet \in BOOLEAN, duplex \in BOOLEAN, page_range \in PageRanges :
           pf = [PfIdle EXCEPT !.phase = "called",
                               !.booklet = booklet,
                               !.duplex = duplex,
                               !.page_range = page_range]

Submit ==
    /\ pf.phase = "called"
    /\ \E o1 \in RunOutcomes, o2 \in RunOutcomes :
           LET r == print_file_postscript(SomeFile, pf.booklet, pf.duplex,
                                          pf.page_range, o1, o2)
           IN  pf' = [pf EXCEPT !.phase = "returned",
                                !.ret = r.ret,
                                !.runs = r.runs]
    /\ UNCHANGED <<user_data, files, sig_files, last, bk, cv, pr, sc, sw, bot_data>>

NextPrint == Submit

SpecPrint == InitPrint /\ [][NextPrint]_vars

----------------------------------------------------------------------------
(* Spec: the handlers registered in bot.py:80-87.                          *)
(*                                                                         *)
(* Application.builder() (bot.py:65) leaves concurrent_updates off, so the *)
(* updates are handled one at a time and a handler runs to its end before  *)
(* the next one starts: every handler branch is one action.  A Telegram    *)
(* call that raises before the handler has changed anything ends the       *)
(* handler with every variable as it was: a stuttering step.  Where a      *)
(* raising call leaves a changed state behind, it is an input of the       *)
(* action.                                                                 *)

\* Page counts of the uploaded documents: 1 is printed at once, 2 is the
\* smallest booklet, 25 is imposed as two signature files.
PageCounts == {1, 2, 25}

\* One extension of each class of config.py:21-25 and utils.py:48-61, and
\* one that is not supported.
SUPPORTED_FORMATS == {".pdf", ".docx", ".jpg", ".txt"}

Extensions == SUPPORTED_FORMATS \cup {".exe"}

is_office_document(file_ext) == file_ext \in {".docx"}

is_image_file(file_ext) == file_ext \in {".jpg"}

\* 'pdf_path' in context.user_data
HasSession(u) == user_data[u].pdf_path # NoPath

\* tempfile.NamedTemporaryFile hands out a name that no existing file has.
NextFree(S) ==
    CHOOSE i \in 1..(Cardinality(S) + 1) :
        i \notin S /\ \A j \in 1..(i - 1) : j \in S

RECURSIVE FreshPaths(_, _)
\* n fresh names, in the order they are handed out
FreshPaths(S, n) ==
    IF n = 0 THEN << >>
    ELSE LET f == NextFree(S) IN <<f>> \o FreshPaths(S \cup {f}, n - 1)

OnDisk == files \cup sig_files

\* What one handled update of user u did: the branch taken, the calls of
\* print_file_postscript it made, the files it removed, the last message it
\* sent.  artifact is the session's file as the handler found it
\* (handlers.py:306, 422).
Step(handler, u, branch, prints, deleted, reply) ==
    [handler |-> handler, user |-> u, branch |-> branch,
     artifact |-> user_data[u].pdf_path,
     prints |-> prints, deleted |-> deleted, reply |-> reply]

\* What one handled upload did; artifact is the file the conversion
\* returned (handlers.py:226-231), NoPath if it returned none.
UploadStep(u, branch, artifact, prints, deleted, reply) ==
    [handler |-> "handle_document_or_photo", user |-> u, branch |-> branch,
     artifact |-> artifact,
     prints |-> prints, deleted |-> deleted, reply |-> reply]

\* One call of print_file_postscript by a handler, with its result; o is
\* the pair of outcomes of the primary and of the simplified command.
PrintCall(file_path, booklet, duplex, page_range, o) ==
    LET r == print_file_postscript(file_path, booklet, duplex, page_range,
                                   o[1], o[2])
    IN  [file |-> file_path, booklet |-> booklet, duplex |-> duplex,
         page_range |-> page_range, ret |-> r.ret, runs |-> r.runs]

\* The outcomes drawn for a handler's call: the primary command succeeds,
\* the simplified one succeeds, both fail.  The handlers read only the
\* value returned; SpecPrint draws every pair of outcomes.
Outcomes ==
    {<<"exit0", "exit0">>, <<"nonzero", "exit0">>, <<"nonzero", "nonzero">>}

\* The outcomes to draw for a call that is made only if `called` holds.
OutcomesIf(called) == IF called THEN Outcomes ELSE {<<"exit0", "exit0">>}

\* The outcomes to draw for n calls consumed by all(): all() stops at the
\* first call that returns False, and the calls it never makes have one
\* outcome, so that no run of calls is drawn twice.
OutcomesOfAll(n) ==
    {outcomes \in [1..n -> Outcomes] :
        \A i \in 1..n :
            (\E j \in 1..(i - 1) :
                ~print_file_postscript(SomeFile, TRUE, TRUE, None,
                                       outcomes[j][1], outcomes[j][2]).ret)
            => outcomes[i] = <<"exit0", "exit0">>}

\* Fault injection: the session and the file are kept when the print failed.
execute_print_with_range_keep(handler, branch, u, ud, page_range, announce_raises, o) ==
    IF ud.pdf_path = NoPath \/ announce_raises
    THEN /\ user_data' = [user_data EXCEPT ![u] = ud]
         /\ UNCHANGED <<files, sig_files>>
         /\ last' = Step(handler, u, branch, << >>, {}, "none")
    ELSE \E call \in {PrintCall(ud.pdf_path, FALSE, ud.print_mode = "duplex",
                                page_range, o)} :
             /\ user_data' = [user_data EXCEPT ![u] = IF call.ret THEN NoSession ELSE ud]
             /\ files' = IF call.ret THEN files \ {ud.pdf_path} ELSE files
             /\ UNCHANGED sig_files
             /\ last' = Step(handler, u, branch, <<call>>,
                             IF call.ret THEN {ud.pdf_path} \cap files ELSE {},
                             IF call.ret THEN "sent" ELSE "print_error")

\* execute_print_with_range, called with user u's data as the caller left
\* it (ud).  announce_raises: the reply of line 428 raises.
execute_print_with_range(handler, branch, u, ud, page_range, announce_raises, o) ==
    IF ud.pdf_path = NoPath                                   \* lines 418-420
    THEN /\ user_data' = [user_data EXCEPT ![u] = ud]
         /\ UNCHANGED <<files, sig_files>>
         /\ last' = Step(handler, u, branch, << >>, {}, "file_not_found")
    ELSE IF announce_raises                                   \* line 428
    THEN /\ user_data' = [user_data EXCEPT ![u] = ud]
         /\ UNCHANGED <<files, sig_files>>
         /\ last' = Step(handler, u, branch, << >>, {}, "none")
    ELSE \E call \in {PrintCall(ud.pdf_path, FALSE, ud.print_mode = "duplex",
                                page_range, o)} :             \* lines 430-435
             /\ files' = files \ {ud.pdf_path}                \* lines 438-439
             /\ UNCHANGED sig_files
             /\ user_data' = [user_data EXCEPT ![u] = NoSession]   \* line 441
             /\ last' = Step(handler, u, branch, <<call>>,
                             {ud.pdf_path} \cap files,
                             IF call.ret THEN "sent" ELSE "print_error")

\* button_callback, lines 287-300, and handle_scan_callback: the buttons of
\* the scan keyboards, taken before the session is looked at.  The scan
\* reads and writes no key of user_data and no file of a session; what it
\* does with the scanner and with its own files is SpecScan's.
button_scan(u) ==
    /\ \E reply \in {"scan_menu", "scan_cancelled", "scan_sent", "scan_error"} :
           last' = Step("button_callback", u, "scan", << >>, {}, reply)
    /\ UNCHANGED <<user_data, files, sig_files, bk, pf, cv, pr, sc, sw, bot_data>>

\* Fault injection: a button pressed without a session submits a print.
button_no_session_reprint(u) ==
    /\ ~HasSession(u)
    /\ last' = Step("button_callback", u, "no_session",
                    <<PrintCall(NoPath, FALSE, FALSE, None, <<"exit0", "exit0">>)>>,
                    {}, "sent")
    /\ UNCHANGED <<user_data, files, sig_files, bk, pf, cv, pr, sc, sw, bot_data>>

\* button_callback, lines 302-304: no session, whatever button of the
\* print keyboards (handlers.py:27-62) was pressed.
button_no_session(u) ==
    /\ ~HasSession(u)
    /\ last' = Step("button_callback", u, "no_session", << >>, {},
                    "session_expired")
    /\ UNCHANGED <<user_data, files, sig_files, bk, pf, cv, pr, sc, sw, bot_data>>

\* Fault injection: cancel forgets the session and keeps the file.
button_cancel_keep_file(u) ==
    /\ HasSession(u)
    /\ user_data' = [user_data EXCEPT ![u] = NoSession]
    /\ last' = Step("button_callback", u, "cancel", << >>, {}, "cancelled")
    /\ UNCHANGED <<files, sig_files, bk, pf, cv, pr, sc, sw, bot_data>>

\* Fault injection: cancel clears the sessions of all users.
button_cancel_everyone(u) ==
    /\ HasSession(u)
    /\ files' = files \ {user_data[u].pdf_path}
    /\ user_data' = [v \in Users |-> NoSession]
    /\ last' = Step("button_callback", u, "cancel", << >>,
                    {user_data[u].pdf_path} \cap files, "cancelled")
    /\ UNCHANGED <<sig_files, bk, pf, cv, pr, sc, sw, bot_data>>

\* button_callback, lines 310-315: "cancel".
button_cancel(u) ==
    /\ HasSession(u)
    /\ files' = files \ {user_data[u].pdf_path}
    /\ user_data' = [user_data EXCEPT ![u] = NoSession]
    /\ last' = Step("button_callback", u, "cancel", << >>,
                    {user_data[u].pdf_path} \cap files, "cancelled")
    /\ UNCHANGED <<sig_files, bk, pf, cv, pr, sc, sw, bot_data>>

\* button_callback, lines 317-324: "print_normal_only".
button_print_normal_only(u) ==
    /\ HasSession(u)
    /\ \E o \in Outcomes :
           \E pdf_path \in {user_data[u].pdf_path} :
           \E call \in {PrintCall(pdf_path, FALSE, FALSE, None, o)} :
               /\ files' = files \ {pdf_path}
               /\ user_data' = [user_data EXCEPT ![u] = NoSession]
               /\ last' = Step("button_callback", u, "print_normal_only",
                               <<call>>, {pdf_path} \cap files,
                               IF call.ret THEN "sent" ELSE "print_error")
    /\ UNCHANGED <<sig_files, bk, pf, cv, pr, sc, sw, bot_data>>

\* button_callback, lines 326-340: "print_normal" and "print_duplex".
button_print_mode(u) ==
    /\ HasSession(u)
    /\ \E data \in {"print_normal", "print_duplex"} :
           LET ud == [user_data[u] EXCEPT
                          !.print_mode = IF data = "print_normal"
                                         THEN "normal" ELSE "duplex"]
           IN  IF ud.page_count <= 1
               THEN \E announce_raises \in BOOLEAN :
                    \E o \in OutcomesIf(~announce_raises) :
                        execute_print_with_range("button_callback", data, u, ud,
                                                 None, announce_raises, o)
               ELSE /\ user_data' = [user_data EXCEPT ![u] = ud]
                    /\ last' = Step("button_callback", u, data, << >>, {},
                                    "choose_range")
                    /\ UNCHANGED <<files, sig_files>>
    /\ UNCHANGED <<bk, pf, cv, pr, sc, sw, bot_data>>

RECURSIVE all_prints_from(_, _, _)
\* Fault injection: every file is submitted and one success is enough.
all_prints_any(booklet_files, outcomes) ==
    LET prints == [i \in 1..Len(booklet_files) |->
                      PrintCall(booklet_files[i], TRUE, TRUE, None, outcomes[i])]
    IN  [success |-> \E i \in 1..Len(prints) : prints[i].ret,
         prints |-> prints]

\* The generator of lines 371-374, consumed by all() from file i on: the
\* calls made, in order; all() stops at the first call that returns False.
all_prints_from(booklet_files, outcomes, i) ==
    IF i > Len(booklet_files) THEN << >>
    ELSE LET call == PrintCall(booklet_files[i], TRUE, TRUE, None, outcomes[i])
         IN  IF call.ret
             THEN <<call>> \o all_prints_from(booklet_files, outcomes, i + 1)
             ELSE <<call>>

\* Fault injection: the signature files are submitted last to first.
all_prints_backwards(booklet_files, outcomes) ==
    LET n == Len(booklet_files)
        prints == all_prints_from([i \in 1..n |-> booklet_files[n + 1 - i]],
                                  outcomes, 1)
    IN  [success |-> \A i \in 1..Len(prints) : prints[i].ret,
         prints |-> prints]

\* success = all(print_file_postscript(f, booklet=True, duplex=True, ...)
\*               for f in booklet_files)
all_prints(booklet_files, outcomes) ==
    LET prints == all_prints_from(booklet_files, outcomes, 1)
    IN  [success |-> \A i \in 1..Len(prints) : prints[i].ret,
         prints |-> prints]

\* button_callback, lines 342-392: "print_booklet".
\*   fail_at        the signature whose imposition raises
\*   outcomes       how the spooler commands of each signature file end
\*   report_raises  the edit of lines 381-385 raises
\* Fault injection: a failed imposition keeps the session and its file.
booklet_aborted_keep(u, ud, written) ==
    /\ sig_files' = sig_files \cup Range(written)
    /\ user_data' = [user_data EXCEPT ![u] = ud]
    /\ last' = Step("button_callback", u, "print_booklet",
                    << >>, {}, "booklet_not_created")
    /\ UNCHANGED files

\* button_callback, lines 368-369 and 386-392: create_booklet_for_short_edge
\* gave no file, the handler raises and its except block removes the
\* session's file, clears the session and replies with the exception's text.
\* written are the copies the imposition had made before it raised.
booklet_aborted(u, ud, written) ==
    /\ files' = files \ {ud.pdf_path}
    /\ sig_files' = sig_files \cup Range(written)
    /\ user_data' = [user_data EXCEPT ![u] = NoSession]
    /\ last' = Step("button_callback", u, "print_booklet",
                    << >>, {ud.pdf_path} \cap files, "booklet_not_created")

button_print_booklet(u) ==
    /\ HasSession(u)
    /\ LET ud == [user_data[u] EXCEPT !.print_mode = "booklet"]
           pdf_path == ud.pdf_path
           config == calculate_signature_config(ud.page_count,
                                                DEFAULT_SHEETS_PER_SIGNATURE)
           windows == signature_configs(ud.page_count, config[2])
       IN  IF ud.page_count < 2                               \* lines 344-350
           THEN /\ user_data' = [user_data EXCEPT ![u] = ud]
                /\ last' = Step("button_callback", u, "print_booklet", << >>, {},
                                "booklet_needs_two_pages")
                /\ UNCHANGED <<files, sig_files>>
           ELSE \/ /\ user_data' = [user_data EXCEPT ![u] = ud]   \* line 364 raises
                   /\ last' = Step("button_callback", u, "print_booklet",
                                   << >>, {}, "none")
                   /\ UNCHANGED <<files, sig_files>>
                \/ \E fail_at \in 1..Len(windows) :           \* lines 368-369, 386-392
                       \* the copies made before the imposition raised stay
                       /\ create_booklet_for_short_edge(
                              ud.page_count, config[2], fail_at) = << >>
                       /\ booklet_aborted(u, ud,
                                          FreshPaths(OnDisk, fail_at - 1))
                \/ \E booklet \in {create_booklet_for_short_edge(  \* lines 367-385
                                        ud.page_count, config[2], 0)} :
                   \E booklet_files \in {FreshPaths(OnDisk, Len(booklet))} :
                       /\ booklet # << >>
                       /\ files' = files \ {pdf_path}
                       /\ UNCHANGED sig_files
                       /\ user_data' = [user_data EXCEPT ![u] = NoSession]
                       /\ \E report_raises \in BOOLEAN,
                             outcomes \in OutcomesOfAll(Len(booklet_files)) :
                          \E result \in {all_prints(booklet_files, outcomes)} :
                                  last' = Step("button_callback", u, "print_booklet",
                                              result.prints,
                                              Range(booklet_files)
                                                  \cup ({pdf_path} \cap files),
                                              IF report_raises THEN "error"
                                              ELSE IF result.success THEN "booklet_sent"
                                              ELSE "booklet_print_error")
    /\ UNCHANGED <<bk, pf, cv, pr, sc, sw, bot_data>>

\* button_callback, lines 394-395: "print_all".
button_print_all(u) ==
    /\ HasSession(u)
    /\ \E announce_raises \in BOOLEAN :
           \E o \in OutcomesIf(~announce_raises) :
               execute_print_with_range("button_callback", "print_all", u,
                                        user_data[u], None, announce_raises, o)
    /\ UNCHANGED <<bk, pf, cv, pr, sc, sw, bot_data>>

\* button_callback, lines 397-399: "print_custom".
button_print_custom(u) ==
    /\ HasSession(u)
    /\ user_data' = [user_data EXCEPT ![u].awaiting_custom_range = TRUE]
    /\ last' = Step("button_callback", u, "print_custom", << >>, {}, "enter_range")
    /\ UNCHANGED <<files, sig_files, bk, pf, cv, pr, sc, sw, bot_data>>

\* button_callback, lines 401-410: "back_to_menu".
button_back_to_menu(u) ==
    /\ HasSession(u)
    /\ user_data' = [user_data EXCEPT ![u].awaiting_custom_range = FALSE]
    /\ last' = Step("button_callback", u, "back_to_menu", << >>, {}, "choose_mode")
    /\ UNCHANGED <<files, sig_files, bk, pf, cv, pr, sc, sw, bot_data>>

\* The characters of the text messages drawn.  "/cancel" is the command
\* word as one character; " " is white space.
TextChars == DIGITS \cup {",", "-", "a", " ", "/cancel"}

\* Longer messages that are drawn too.
ExampleTexts ==
    {<<"1", "-", "1", ",", "1", ",", "1", "-", "1">>,
     <<" ", "1", "1", " ">>,
     <<"1", "-", "1", ";", "1">>,
     <<"1", "-">>,
     <<"1", ",">>,
     <<"a", "a", "a">>,
     <<" ", "/cancel">>}

Texts == SeqsUpTo(TextChars, MaxTextLen) \cup ExampleTexts

\* filters.COMMAND (bot.py:87): the message starts with a bot command.
IsCommand(text) == Len(text) > 0 /\ text[1] = "/cancel"

RECURSIVE lstrip(_)
lstrip(text) ==
    IF Len(text) > 0 /\ Head(text) = " " THEN lstrip(Tail(text)) ELSE text

RECURSIVE rstrip(_)
rstrip(text) ==
    IF Len(text) > 0 /\ text[Len(text)] = " "
    THEN rstrip(SubSeq(text, 1, Len(text) - 1))
    ELSE text

\* str.strip()
strip(text) == rstrip(lstrip(text))

\* str.lower(), character by character
lower(text) ==
    [i \in 1..Len(text) |->
        IF text[i] = "A" THEN "a"
        ELSE IF text[i] = "/CANCEL" THEN "/cancel"
        ELSE text[i]]

\* The texts handle_text_input works on: the messages that pass the
\* filter of bot.py:87, stripped (line 449).
StrippedTexts == {strip(message) : message \in {m \in Texts : ~IsCommand(m)}}

CancelTexts == {text \in StrippedTexts : lower(text) = <<"/cancel">>}

RejectedTexts ==
    {text \in StrippedTexts \ CancelTexts : ~page_range_syntax_ok(text)}

AcceptedTexts ==
    {text \in StrippedTexts \ CancelTexts : page_range_syntax_ok(text)}

\* The messages that filters.COMMAND takes away from handle_text_input.
CommandTexts == {message \in Texts : IsCommand(message)}

\* bot.py:80-87: a text message that starts with a command is kept from
\* handle_text_input by ~filters.COMMAND; the command handlers are those of
\* /start, /help_booklet, /add_user, /remove_user and /list_users, and none
\* of them takes /cancel.  No handler runs.
command_filtered(u) ==
    /\ last' = Step("none", u, "filtered", << >>, {}, "none")
    /\ UNCHANGED <<user_data, files, sig_files, bk, pf, cv, pr, sc, sw, bot_data>>

unhandled_command(u) ==
    /\ CommandTexts # {}
    /\ command_filtered(u)

\* Fault injection: a text that no custom range is awaited for prints the
\* session's file.
handle_text_input_eager(u) ==
    /\ ~user_data[u].awaiting_custom_range
    /\ \E o \in Outcomes :
           execute_print_with_range("handle_text_input", "ignored", u,
                                    user_data[u], None, FALSE, o)
    /\ UNCHANGED <<bk, pf, cv, pr, sc, sw, bot_data>>

\* handle_text_input, lines 446-447: no custom range is awaited, whatever
\* the text.
handle_text_input_ignored(u) ==
    /\ ~user_data[u].awaiting_custom_range
    /\ last' = Step("handle_text_input", u, "ignored", << >>, {}, "none")
    /\ UNCHANGED <<user_data, files, sig_files, bk, pf, cv, pr, sc, sw, bot_data>>

\* handle_text_input, lines 450-457: the stripped text is /cancel.
text_cancel(u) ==
    /\ user_data' = [user_data EXCEPT ![u].awaiting_custom_range = FALSE]
    /\ last' = Step("handle_text_input", u, "cancel", << >>, {},
                    "input_cancelled")
    /\ UNCHANGED <<files, sig_files, bk, pf, cv, pr, sc, sw, bot_data>>

\* handle_text_input, lines 459-461: the stripped text is not a page range.
text_rejected(u) ==
    /\ last' = Step("handle_text_input", u, "rejected", << >>, {},
                    "bad_format")
    /\ UNCHANGED <<user_data, files, sig_files, bk, pf, cv, pr, sc, sw, bot_data>>

\* handle_text_input, lines 463-464: the stripped text is a page range.
text_accepted(u, text) ==
    /\ \E announce_raises \in BOOLEAN :
           \E o \in OutcomesIf(~announce_raises) :
               execute_print_with_range("handle_text_input", "accepted", u,
                                        user_data[u], text, announce_raises, o)
    /\ UNCHANGED <<bk, pf, cv, pr, sc, sw, bot_data>>

\* handle_text_input, lines 449-464, by what the stripped text is.
handle_text_input(u) ==
    /\ user_data[u].awaiting_custom_range
    /\ \/ CancelTexts # {} /\ text_cancel(u)
       \/ RejectedTexts # {} /\ text_rejected(u)
       \/ \E text \in AcceptedTexts : text_accepted(u, text)

\* What the application does with one text message of u: the dispatch of
\* bot.py:80-87, then handle_text_input.
text_update(u, message) ==
    IF IsCommand(message) THEN command_filtered(u)
    ELSE IF ~user_data[u].awaiting_custom_range
    THEN handle_text_input_ignored(u)
    ELSE IF lower(strip(message)) = <<"/cancel">> THEN text_cancel(u)
    ELSE IF ~page_range_syntax_ok(strip(message)) THEN text_rejected(u)
    ELSE text_accepted(u, strip(message))

\* The uploads that lines 211-213 let through and lines 226-234 route to
\* a conversion.
Convertible ==
    {file_ext \in SUPPORTED_FORMATS :
        file_ext = ".pdf" \/ is_office_document(file_ext) \/ is_image_file(file_ext)}

\* handle_document_or_photo, lines 211-213 and 232-234: the upload is
\* refused before anything is converted.
upload_refused(u) ==
    /\ \E reply \in {IF ~size_ok \/ file_ext \notin SUPPORTED_FORMATS
                      THEN "too_big_or_unsupported"           \* lines 211-213
                      ELSE "no_conversion" :                  \* lines 232-234
                          <<file_ext, size_ok>> \in
                              {r \in Extensions \X BOOLEAN :
                                  ~r[2] \/ r[1] \notin Convertible}} :
           last' = UploadStep(u, "refused", NoPath, << >>, {}, reply)
    /\ UNCHANGED <<user_data, files, sig_files, bk, pf, cv, pr, sc, sw, bot_data>>

\* Fault injection: a failed upload clears the user's session.
upload_failed_clears(u) ==
    /\ Convertible # {}
    /\ user_data' = [user_data EXCEPT ![u] = NoSession]
    /\ last' = UploadStep(u, "failed", NoPath, << >>, {},
                    "processing_error")
    /\ UNCHANGED <<files, sig_files, bk, pf, cv, pr, sc, sw, bot_data>>

\* handle_document_or_photo, lines 220-234 and 268-270: the download or the
\* conversion of a convertible upload raises.
upload_failed(u) ==
    /\ Convertible # {}
    /\ last' = UploadStep(u, "failed", NoPath, << >>, {},
                    "processing_error")
    /\ UNCHANGED <<user_data, files, sig_files, bk, pf, cv, pr, sc, sw, bot_data>>

\* handle_document_or_photo, lines 236-238 and 268-270: the conversion
\* returned a file and counting its pages raises; the file stays.
upload_uncounted(u) ==
    /\ Convertible # {}
    /\ Cardinality(OnDisk) < MaxFiles
    /\ files' = files \cup {NextFree(OnDisk)}
    /\ last' = UploadStep(u, "uncounted", NextFree(OnDisk), << >>, {},
                    "processing_error")
    /\ UNCHANGED <<user_data, sig_files, bk, pf, cv, pr, sc, sw, bot_data>>

\* The user data written by lines 240-249.
new_session(pdf_path, page_count) ==
    [pdf_path |-> pdf_path,
     page_count |-> page_count,
     awaiting_custom_range |-> FALSE,
     print_mode |-> "normal"]

\* handle_document_or_photo, lines 240-249 and 260-266: a document of
\* several pages becomes the user's session.  The path of a session that
\* was pending is overwritten; its file is not removed.
upload_ready(u) ==
    /\ Convertible # {}
    /\ Cardinality(OnDisk) < MaxFiles
    /\ \E page_count \in PageCounts \ {1} :
           LET pdf_path == NextFree(OnDisk)
           IN  /\ files' = files \cup {pdf_path}
               /\ user_data' = [user_data EXCEPT
                                    ![u] = new_session(pdf_path, page_count)]
               /\ last' = UploadStep(u, "ready", pdf_path, << >>, {},
                               "choose_mode")
    /\ UNCHANGED <<sig_files, bk, pf, cv, pr, sc, sw, bot_data>>

\* Fault injection: the single page is printed two-sided.
upload_single_page_duplex(u) ==
    /\ Convertible # {}
    /\ \E o \in Outcomes :
       \E pdf_path \in {NextFree(OnDisk)} :
       \E call \in {PrintCall(pdf_path, FALSE, TRUE, None, o)} :
           /\ UNCHANGED files
           /\ user_data' = [user_data EXCEPT ![u] = NoSession]
           /\ last' = UploadStep(u, "single_page", pdf_path,
                           <<call>>, {pdf_path},
                           IF call.ret THEN "sent" ELSE "print_error")
    /\ UNCHANGED <<sig_files, bk, pf, cv, pr, sc, sw, bot_data>>

\* handle_document_or_photo, lines 240-258: a document of one page is
\* printed at once.  announce_raises: the reply of line 252 raises, and the
\* session written by lines 240-249 stays.
upload_single_page(u) ==
    /\ Convertible # {}
    /\ \E announce_raises \in BOOLEAN :
       \E o \in OutcomesIf(~announce_raises) :
           \E pdf_path \in {NextFree(OnDisk)} :
           \E call \in {PrintCall(pdf_path, FALSE, FALSE, None, o)} :
               IF announce_raises
               THEN /\ Cardinality(OnDisk) < MaxFiles
                    /\ files' = files \cup {pdf_path}
                    /\ user_data' = [user_data EXCEPT
                                         ![u] = new_session(pdf_path, 1)]
                    /\ last' = UploadStep(u, "single_page", pdf_path,
                                    << >>, {}, "processing_error")
               ELSE /\ UNCHANGED files
                    /\ user_data' = [user_data EXCEPT ![u] = NoSession]
                    /\ last' = UploadStep(u, "single_page", pdf_path,
                                    <<call>>, {pdf_path},
                                    IF call.ret THEN "sent" ELSE "print_error")
    /\ UNCHANGED <<sig_files, bk, pf, cv, pr, sc, sw, bot_data>>

Init ==
    /\ SessionIdle
    /\ bk = BkIdle
    /\ pf = PfIdle
    /\ cv = CvIdle /\ pr = PrIdle /\ sc = ScIdle /\ sw = SwIdle

Next ==
    \E u \in Users :
        \/ upload_refused(u)
        \/ upload_failed(u)
        \/ upload_uncounted(u)
        \/ upload_ready(u)
        \/ upload_single_page(u)
        \/ button_scan(u)
        \/ button_no_session(u)
        \/ button_cancel(u)
        \/ button_print_normal_only(u)
        \/ button_print_mode(u)
        \/ button_print_booklet(u)
        \/ button_print_all(u)
        \/ button_print_custom(u)
        \/ button_back_to_menu(u)
        \/ unhandled_command(u)
        \/ handle_text_input_ignored(u)
        \/ handle_text_input(u)

Spec == Init /\ [][Next]_vars

-----------------------------------------------------------------------------
(* SpecConvert: one upload from its routing to a conversion
   (handlers.py:226-231) to the session update (handlers.py:240-249) *)

NoMsg == 0

\* What the Telegram API does at one status update: "ok", every call
\* succeeds; "edit_fails", edit_message_text raises and send_message
\* succeeds; "down", both raise.
TgOutcomes == {"ok", "edit_fails", "down"}

\* The status updates of a conversion, by the place that makes them:
\* "start" conversion.py:106 and 167, "gray_note" 137 and 195, "gs_start"
\* 218, "gs_fallback" 256.
StatusSites == {"start", "gray_note", "gs_start", "gs_fallback"}

AllDelivered == [site \in StatusSites |-> "ok"]

\* send_progress_message: an edit of message_id when there is one, a new
\* message (fresh) when there is none or the edit raised.  Only the edit is
\* guarded; send_message raises to the caller.
send_progress_message(message_id, tg, fresh) ==
    IF message_id # NoMsg /\ tg = "ok"
    THEN [raised |-> FALSE, message_id |-> message_id]
    ELSE IF tg = "down"
    THEN [raised |-> TRUE, message_id |-> message_id]
    ELSE [raised |-> FALSE, message_id |-> fresh]

\* run_subprocess raises RuntimeError on a timeout and on a non-zero exit,
\* and lets the exception of a failed spawn through.
run_subprocess(outcome) == [raised |-> outcome # "exit0"]

GRAY_MIN_SIZE == 1024

OutputSizes == {GRAY_MIN_SIZE - 1, GRAY_MIN_SIZE, GRAY_MIN_SIZE + 1}

NoOutput == [exists |-> FALSE, size |-> 0]

\* The Ghostscript command and the output file it leaves.
GsOutcomes ==
    {[run |-> o, output |-> NoOutput] : o \in RunOutcomes}
        \cup {[run |-> "exit0", output |-> [exists |-> TRUE, size |-> s]] :
                 s \in OutputSizes}

\* The LibreOffice or img2pdf command and whether its PDF exists.
StageOutcomes ==
    {[run |-> o, output_exists |-> FALSE] : o \in RunOutcomes}
        \cup {[run |-> "exit0", output_exists |-> TRUE]}

Raised(stages) == [raised |-> TRUE, pdf |-> "none", stages |-> stages]

Returned_pdf(pdf, stages) == [raised |-> FALSE, pdf |-> pdf, stages |-> stages]

\* conversion.py:240-251: the Ghostscript command and the check of its
\* output.
grayscale_made(gs) ==
    /\ ~run_subprocess(gs.run).raised
    /\ ~(~gs.output.exists \/ gs.output.size < GRAY_MIN_SIZE)

\* Fault injection: a failed grayscale stage raises.
convert_pdf_to_grayscale_strict(pdf_path, gs, tg) ==
    LET start == send_progress_message(NoMsg, tg["gs_start"], 3)
    IN  IF start.raised THEN Raised(<< >>)
        ELSE IF grayscale_made(gs) THEN Returned_pdf("gray", <<"grayscale">>)
        ELSE Raised(<<"grayscale">>)

\* convert_pdf_to_grayscale: the grayscale copy of pdf_path, or, when the
\* stage fails, a copy of pdf_path itself.  The status update of line 218
\* is outside the try block and the one of line 256 is inside the except
\* block: either raises to the caller.
convert_pdf_to_grayscale(pdf_path, gs, tg) ==
    LET start == send_progress_message(NoMsg, tg["gs_start"], 3)
        fallback == send_progress_message(start.message_id,
                                          tg["gs_fallback"], 4)
    IN  IF start.raised THEN Raised(<< >>)
        ELSE IF grayscale_made(gs) THEN Returned_pdf("gray", <<"grayscale">>)
        ELSE IF fallback.raised THEN Raised(<<"grayscale">>)
        ELSE Returned_pdf(pdf_path, <<"grayscale">>)

\* The except block of convert_to_pdf and of convert_image_to_pdf
\* (conversion.py:145-151, 199-205): a status update, then the exception is
\* raised again; when the status update raises, its exception is raised.
conversion_error(stages) == Raised(stages)

\* Fault injection: a failed office or image stage returns its input.
staged_conversion_lenient(name, input, stage, gs, tg) ==
    LET start == send_progress_message(NoMsg, tg["start"], 1)
        note == send_progress_message(start.message_id, tg["gray_note"], 2)
        gray == convert_pdf_to_grayscale("converted", gs, tg)
    IN  IF start.raised THEN Raised(<< >>)
        ELSE IF run_subprocess(stage.run).raised \/ ~stage.output_exists
        THEN Returned_pdf(input, <<name>>)
        ELSE IF note.raised THEN conversion_error(<<name>>)
        ELSE IF gray.raised THEN conversion_error(<<name>> \o gray.stages)
        ELSE Returned_pdf(gray.pdf, <<name>> \o gray.stages)

\* The common shape of convert_to_pdf and convert_image_to_pdf: the status
\* update of line 106 (167) outside the try block, the command and the check
\* that its PDF exists, the grayscale stage, and the except block.
staged_conversion(name, input, stage, gs, tg) ==
    LET start == send_progress_message(NoMsg, tg["start"], 1)
        note == send_progress_message(start.message_id, tg["gray_note"], 2)
        gray == convert_pdf_to_grayscale("converted", gs, tg)
    IN  IF start.raised THEN Raised(<< >>)
        ELSE IF run_subprocess(stage.run).raised \/ ~stage.output_exists
        THEN conversion_error(<<name>>)
        ELSE IF note.raised THEN conversion_error(<<name>>)
        ELSE IF gray.raised THEN conversion_error(<<name>> \o gray.stages)
        ELSE Returned_pdf(gray.pdf, <<name>> \o gray.stages)

convert_to_pdf(input_file, stage, gs, tg) ==
    staged_conversion("office_to_pdf", input_file, stage, gs, tg)

convert_image_to_pdf(image_path, stage, gs, tg) ==
    staged_conversion("image_to_pdf", image_path, stage, gs, tg)

\* handlers.py:232-234: no conversion is called; the handler replies and
\* returns.
no_conversion == Returned_pdf("none", << >>)

\* handlers.py:226-234
upload_conversion(file_ext, stage, gs, tg) ==
    IF file_ext = ".pdf" THEN convert_pdf_to_grayscale("upload", gs, tg)
    ELSE IF is_office_document(file_ext)
    THEN convert_to_pdf("upload", stage, gs, tg)
    ELSE IF is_image_file(file_ext)
    THEN convert_image_to_pdf("upload", stage, gs, tg)
    ELSE no_conversion

InitConvert ==
    /\ SessionIdle
    /\ bk = BkIdle /\ pf = PfIdle /\ pr = PrIdle /\ sc = ScIdle /\ sw = SwIdle
    /\ \E file_ext \in SUPPORTED_FORMATS, stage \in StageOutcomes,
          gs \in GsOutcomes, tg \in [StatusSites -> TgOutcomes],
          countable \in BOOLEAN :
           cv = [phase |-> "uploaded", file_ext |-> file_ext,
                 stage |-> stage, gs |-> gs, tg |-> tg,
                 countable |-> countable]

\* handlers.py:226-249 for the upload in cv: the branch taken, the
\* conversion, the page count (it raises when ~countable) and the session
\* update, which the return of line 234 does not reach.
Converted(route, result) ==
    /\ cv.phase = "uploaded"
    /\ cv' = [cv EXCEPT !.phase = "done"]
               @@ [route |-> route, result |-> result,
                   session |-> /\ route # "none"
                               /\ ~result.raised
                               /\ cv.countable]
    /\ UNCHANGED <<user_data, files, sig_files, last, bk, pf, pr, sc, sw, bot_data>>

upload_pdf ==
    /\ cv.file_ext = ".pdf"
    /\ Converted("pdf", convert_pdf_to_grayscale("upload", cv.gs, cv.tg))

upload_office ==
    /\ cv.file_ext # ".pdf"
    /\ is_office_document(cv.file_ext)
    /\ Converted("office", convert_to_pdf("upload", cv.stage, cv.gs, cv.tg))

upload_image ==
    /\ cv.file_ext # ".pdf"
    /\ ~is_office_document(cv.file_ext)
    /\ is_image_file(cv.file_ext)
    /\ Converted("image",
                 convert_image_to_pdf("upload", cv.stage, cv.gs, cv.tg))

\* handlers.py:232-234: an accepted extension that is neither a PDF, nor an
\* office document, nor an image.
upload_unrouted ==
    /\ cv.file_ext # ".pdf"
    /\ ~is_office_document(cv.file_ext)
    /\ ~is_image_file(cv.file_ext)
    /\ Converted("none", no_conversion)

NextConvert == upload_pdf \/ upload_office \/ upload_image \/ upload_unrouted

SpecConvert == InitConvert /\ [][NextConvert]_vars

-----------------------------------------------------------------------------
(* SpecRunner: one external command under run_subprocess
   (conversion.py:51-89) or _run_scan_command (scanning.py:19-44) *)

\* The longest timeout drawn and the last instant of the clock, in ticks.
MaxTimeout == 2

MaxClock == 4

Forever == MaxClock + 1

Runners == {"run_subprocess", "_run_scan_command"}

\* The child: the instant it ends by itself (Forever: it does not) and
\* whether a termination request ends it.
Children ==
    [lifetime : (0..MaxClock) \cup {Forever}, on_terminate : {"exits", "ignores"}]

InitRunner ==
    /\ SessionIdle
    /\ bk = BkIdle /\ pf = PfIdle /\ cv = CvIdle /\ sc = ScIdle /\ sw = SwIdle
    /\ \E runner \in Runners, timeout \in 1..MaxTimeout, child \in Children :
           pr = [phase |-> "spawn", runner |-> runner, timeout |-> timeout,
                 child |-> child, clock |-> 0, process |-> "none",
                 terminated |-> FALSE, killed |-> FALSE, result |-> "none"]

RunnerStep(next) ==
    /\ pr' = next
    /\ UNCHANGED <<user_data, files, sig_files, last, bk, pf, cv, sc, sw, bot_data>>

\* asyncio.create_subprocess_exec (conversion.py:64-69, scanning.py:29-33)
\* starts the child, or raises.
spawn ==
    /\ pr.phase = "spawn"
    /\ \/ RunnerStep([pr EXCEPT !.phase = "communicate",
                                !.process = "running"])
       \/ RunnerStep([pr EXCEPT !.phase = "returned",
                                !.result = "spawn_error"])

\* One tick of time passes while the runner awaits.  The timeout and the
\* end of the child are taken at their instant.
tick ==
    /\ pr.phase \in {"communicate", "wait"}
    /\ pr.process = "running"
    /\ pr.clock < MaxClock
    /\ pr.clock # pr.child.lifetime
    /\ pr.phase = "communicate" => pr.clock < pr.timeout
    /\ RunnerStep([pr EXCEPT !.clock = @ + 1])

\* The child ends by itself.
process_ends ==
    /\ pr.process = "running"
    /\ pr.clock = pr.child.lifetime
    /\ RunnerStep([pr EXCEPT !.process = "exited"])

\* The child ends because of the termination request.
process_terminates ==
    /\ pr.process = "running"
    /\ pr.terminated
    /\ pr.child.on_terminate = "exits"
    /\ RunnerStep([pr EXCEPT !.process = "exited"])

\* wait_for(process.communicate(), timeout) returns (conversion.py:72,
\* scanning.py:35); the exit code decides between a return and
\* run_subprocess's RuntimeError (conversion.py:80-83).
communicate_returns ==
    /\ pr.phase = "communicate"
    /\ pr.process = "exited"
    /\ \E result \in {"exit0", "nonzero"} :
           RunnerStep([pr EXCEPT !.phase = "returned", !.result = result])

\* wait_for raises TimeoutError: process.terminate(), then the runner awaits
\* process.wait() (conversion.py:73-76, scanning.py:36-39).
communicate_times_out ==
    /\ pr.phase = "communicate"
    /\ pr.process = "running"
    /\ pr.clock = pr.timeout
    /\ RunnerStep([pr EXCEPT !.phase = "wait", !.terminated = TRUE])

\* process.wait() returns once the child has ended; the runner raises the
\* timeout error (conversion.py:79, scanning.py:42).
wait_returns ==
    /\ pr.phase = "wait"
    /\ pr.process = "exited"
    /\ RunnerStep([pr EXCEPT !.phase = "returned", !.result = "timeout_error"])

\* process.wait() raises.  A bare except (conversion.py:77-78) takes every
\* exception, the cancellation of the awaiting task too; except Exception
\* (scanning.py:40-41) does not take CancelledError, which leaves the runner
\* with the child untouched.
wait_raises ==
    /\ pr.phase = "wait"
    /\ \E exception \in {"Exception", "CancelledError"} :
           IF exception = "Exception" \/ pr.runner = "run_subprocess"
           THEN RunnerStep([pr EXCEPT !.phase = "returned",
                                      !.killed = TRUE,
                                      !.process = "exited",
                                      !.result = "timeout_error"])
           ELSE RunnerStep([pr EXCEPT !.phase = "returned",
                                      !.result = "cancelled"])

NextRunner ==
    \/ spawn
    \/ tick
    \/ process_ends
    \/ process_terminates
    \/ communicate_returns
    \/ communicate_times_out
    \/ wait_returns
    \/ wait_raises

\* The event loop runs a runner whose await is over, time passes, and a
\* child that can end does.  Nothing makes process.wait() raise.
SpecRunner ==
    /\ InitRunner
    /\ [][NextRunner]_vars
    /\ WF_vars(spawn)
    /\ WF_vars(tick)
    /\ WF_vars(process_ends)
    /\ WF_vars(process_terminates)
    /\ WF_vars(communicate_returns)
    /\ WF_vars(communicate_times_out)
    /\ WF_vars(wait_returns)

-----------------------------------------------------------------------------
(* SpecScan: one acquisition, auto_detect_scanner then scan_single_page or
   scan_multiple_pages (scanning.py:47-173) *)

\* The most numbered files the batch command leaves and the most lines
\* scanimage -L prints.
MaxScanPages == 3

MaxListing == 2

SCANNER_DEVICE == "xerox_mfp:libusb:001:004"

\* A line of the output of scanimage -L: whether it holds the word device
\* followed by white space, and the name it quotes next ("none": no quoted
\* name there).
ListingLines == [device : BOOLEAN, quoted : {"none", "a", "b"}]

\* What _run_scan_command gives for scanimage -L.  A command that was not
\* spawned or timed out gives no output to the caller.
ListingRuns ==
    {[run |-> o, output |-> << >>] : o \in {"spawn_fail", "timeout"}}
        \cup [run : {"exit0", "nonzero"}, output : SeqsUpTo(ListingLines, MaxListing)]

\* re.search(r"device\s+`([^']+)'", output): the name of the first line
\* that matches, "none" when no line does.
RECURSIVE re_search_device(_, _)
re_search_device(output, i) ==
    IF i > Len(output) THEN "none"
    ELSE IF output[i].device /\ output[i].quoted # "none" THEN output[i].quoted
    ELSE re_search_device(output, i + 1)

\* Fault injection: the exit code of the listing command is not read.
auto_detect_scanner_unchecked(listing) ==
    IF listing.run \in {"spawn_fail", "timeout"} THEN SCANNER_DEVICE
    ELSE IF re_search_device(listing.output, 1) # "none"
    THEN re_search_device(listing.output, 1)
    ELSE SCANNER_DEVICE

\* auto_detect_scanner: its whole body is inside try ... except Exception.
auto_detect_scanner(listing) ==
    IF listing.run \in {"spawn_fail", "timeout"}             \* lines 68-70
    THEN SCANNER_DEVICE
    ELSE IF listing.run # "exit0" THEN SCANNER_DEVICE         \* lines 55-57
    ELSE IF re_search_device(listing.output, 1) # "none"      \* lines 60-64
    THEN re_search_device(listing.output, 1)
    ELSE SCANNER_DEVICE                                       \* lines 65-67

\* A file of the scan's temporary directory.
FileStates == {"missing", "empty", "data"}

\* The batch command's end and the files it left: scan_1.pnm, scan_2.pnm,
\* ... and scan.pnm.  A command that was not spawned left nothing.
BatchRuns ==
    {[run |-> "spawn_fail", numbered |-> [n \in 1..MaxScanPages |-> "missing"],
      alt |-> "missing"]}
        \cup [run : {"exit0", "nonzero", "timeout"},
              numbered : [1..MaxScanPages -> FileStates],
              alt : FileStates]

ScanRaised(error) == [raised |-> TRUE, pages |-> << >>, error |-> error]

ScanReturned(pages) == [raised |-> FALSE, pages |-> pages, error |-> "none"]

\* Fault injection: the walk goes on past a missing or empty file.
collect_pages_past_gaps(numbered, page_num) ==
    SelectSeq([n \in DOMAIN numbered |-> n],
              LAMBDA n : n >= page_num /\ numbered[n] = "data")

\* scanning.py:136-144: the numbered files from page_num on that exist and
\* are not empty, up to the first that is missing or empty.
RECURSIVE collect_pages(_, _)
collect_pages(numbered, page_num) ==
    IF page_num \in DOMAIN numbered /\ numbered[page_num] = "data"
    THEN <<page_num>> \o collect_pages(numbered, page_num + 1)
    ELSE << >>

\* The unnumbered file scan.pnm as a page.
AltPage == 0

\* scan_multiple_pages, the pages it returns as the numbers of their files.
\* A timeout raises out of _run_scan_command at line 131, before the loop of
\* lines 136-144, so the except block of lines 163-170 sees the
\* scanned_files of line 116.
scan_multiple_pages(batch) ==
    LET collected == collect_pages(batch.numbered, 1)
        scanned_files == IF collected = << >> /\ batch.alt = "data"
                         THEN <<AltPage>>                     \* lines 147-151
                         ELSE collected
        scanned_files_at_116 == << >>
    IN  IF batch.run = "spawn_fail" THEN ScanRaised("spawn")  \* lines 171-173
        ELSE IF batch.run = "timeout"
        THEN IF scanned_files_at_116 # << >>                  \* lines 164-166
             THEN ScanReturned(scanned_files_at_116)
             ELSE ScanRaised("timeout")                       \* lines 167-168
        ELSE IF batch.run # "exit0" /\ scanned_files = << >>  \* lines 153-155
        THEN ScanRaised("scan_error")
        ELSE IF scanned_files = << >>                         \* lines 157-158
        THEN ScanRaised("no_pages")
        ELSE ScanReturned(scanned_files)

\* scan_single_page: the flatbed command writes scan.pnm.
scan_single_page(batch) ==
    IF batch.run = "spawn_fail" THEN ScanRaised("spawn")      \* lines 107-109
    ELSE IF batch.run = "timeout" THEN ScanRaised("timeout")  \* lines 102-104
    ELSE IF batch.run # "exit0" THEN ScanRaised("scan_error") \* lines 92-94
    ELSE IF batch.alt # "data" THEN ScanRaised("no_pages")    \* lines 96-97
    ELSE ScanReturned(<<AltPage>>)

InitScan ==
    /\ SessionIdle
    /\ bk = BkIdle /\ pf = PfIdle /\ cv = CvIdle /\ pr = PrIdle /\ sw = SwIdle
    /\ \E source \in {"Flatbed", "ADF"} :
           sc = [phase |-> "detect", source |-> source]

ScanStep(next) ==
    /\ sc' = next
    /\ UNCHANGED <<user_data, files, sig_files, last, bk, pf, cv, pr, sw, bot_data>>

\* scanning.py:75 and 114
detect_scanner ==
    /\ sc.phase = "detect"
    /\ \E listing \in ListingRuns :
           ScanStep([sc EXCEPT !.phase = "scan"]
                       @@ [listing |-> listing,
                           scanner |-> auto_detect_scanner(listing)])

acquire_single ==
    /\ sc.phase = "scan"
    /\ sc.source = "Flatbed"
    /\ \E batch \in BatchRuns :
           /\ \A n \in DOMAIN batch.numbered : batch.numbered[n] = "missing"
           /\ ScanStep([sc EXCEPT !.phase = "done"]
                           @@ [batch |-> batch,
                               result |-> scan_single_page(batch)])

acquire_multiple ==
    /\ sc.phase = "scan"
    /\ sc.source = "ADF"
    /\ \E batch \in BatchRuns :
           ScanStep([sc EXCEPT !.phase = "done"]
                        @@ [batch |-> batch,
                            result |-> scan_multiple_pages(batch)])

\* What handle_scan_callback does with the pages acquired
\* (handlers.py:495-524): the merge to one PDF by convert_images_to_pdf, the
\* delivery by send_document, and the removal of the page files and of the
\* PDF, which lines 510-512 reach only after the delivery.  The except
\* block of lines 523-535 replies and removes nothing.
\*   left      the page files still on disk when the handler ends
\*   pdf_left  whether the merged PDF is still on disk
scan_delivery(pages, merge, send) ==
    IF merge # "merged"                                       \* line 497 raises
    THEN [reply |-> "scan_error", left |-> Range(pages), pdf_left |-> FALSE]
    ELSE IF send # "delivered"                                \* line 502 raises
    THEN [reply |-> "scan_error", left |-> Range(pages), pdf_left |-> TRUE]
    ELSE [reply |-> "scan_ready", left |-> {}, pdf_left |-> FALSE]

\* handlers.py:488-493 raised: no page file was made, and the except block
\* replies.
scan_refused ==
    /\ sc.phase = "done"
    /\ sc.result.raised
    /\ ScanStep([sc EXCEPT !.phase = "ended"]
                    @@ [delivery |-> [reply |-> "scan_error", left |-> {},
                                      pdf_left |-> FALSE]])

\* handlers.py:495-519 for the pages acquired.
deliver_scan ==
    /\ sc.phase = "done"
    /\ ~sc.result.raised
    /\ \E merge \in {"merged", "merge_fails"},
          send \in {"delivered", "send_fails"} :
           ScanStep([sc EXCEPT !.phase = "ended"]
                        @@ [delivery |->
                                scan_delivery(sc.result.pages, merge, send)])

NextScan ==
    \/ detect_scanner
    \/ acquire_single
    \/ acquire_multiple
    \/ scan_refused
    \/ deliver_scan

SpecScan == InitScan /\ [][NextScan]_vars

-----------------------------------------------------------------------------
(* SpecSweep: the temporary directory over the life of the process, main()
   of bot.py:60-89 and cleanup_temp_files (utils.py:72-88) *)

\* The most files of the temporary directory that are followed.
MaxTmpFiles == 2

\* One hour, the age of utils.py:82, in ticks of the clock.  Ages are
\* counted up to Hour + 1: all that is read of an age is whether it is over
\* one hour.
Hour == 2

Absent == [present |-> FALSE, matching |-> FALSE, age |-> 0]

\* A file of the temporary directory: whether its name starts with one of
\* the prefixes of utils.py:75, and the time since it was last written.
TmpFiles ==
    {Absent} \cup [present : {TRUE}, matching : BOOLEAN, age : 0..(Hour + 1)]

InitSweep ==
    /\ SessionIdle
    /\ bk = BkIdle /\ pf = PfIdle /\ cv = CvIdle /\ pr = PrIdle /\ sc = ScIdle
    /\ \E tmp \in [1..MaxTmpFiles -> TmpFiles] :
           sw = [phase |-> "start", tmp |-> tmp]

SweepStep(next) ==
    /\ sw' = next
    /\ UNCHANGED <<user_data, files, sig_files, last, bk, pf, cv, pr, sc, bot_data>>

\* cleanup_temp_files: every regular file whose name matches and whose age
\* is over one hour is unlinked.
cleanup_temp_files(tmp) ==
    [i \in DOMAIN tmp |->
        IF tmp[i].present /\ tmp[i].matching /\ tmp[i].age > Hour
        THEN Absent ELSE tmp[i]]

\* main(), bot.py:60-61: the sweep is called once, before the application
\* is built; bot.py:89 then polls until the process ends.  Nothing
\* schedules another call.
startup ==
    /\ sw.phase = "start"
    /\ SweepStep([phase |-> "polling", tmp |-> cleanup_temp_files(sw.tmp)])

\* A handler leaves a file behind while the process polls (C3).
leave_file ==
    /\ sw.phase = "polling"
    /\ \E i \in DOMAIN sw.tmp, matching \in BOOLEAN :
           /\ ~sw.tmp[i].present
           /\ SweepStep([sw EXCEPT !.tmp[i] =
                  [present |-> TRUE, matching |-> matching, age |-> 0]])

\* One tick of time passes while the process polls.
age_files ==
    /\ sw.phase = "polling"
    /\ SweepStep([sw EXCEPT !.tmp =
           [i \in DOMAIN sw.tmp |->
               IF sw.tmp[i].present /\ sw.tmp[i].age <= Hour
               THEN [sw.tmp[i] EXCEPT !.age = @ + 1]
               ELSE sw.tmp[i]]])

NextSweep == startup \/ leave_file \/ age_files

\* The process starts and keeps running, and time passes.
SpecSweep ==
    /\ InitSweep
    /\ [][NextSweep]_vars
    /\ WF_vars(startup)
    /\ WF_vars(age_files)

-----------------------------------------------------------------------------
(* SpecAccess: the handlers of bot.py with the allow-list of
   context.bot_data, which the administrator's commands change
   (handlers.py:112-166) and some handlers check at their start *)

ADMIN_ID == "A"

is_user_allowed(user_id, allowed_users) == user_id \in allowed_users

is_admin(user_id) == user_id = ADMIN_ID

Allowed(u) == is_user_allowed(u, bot_data.allowed_users)

\* bot.py:63-68: the allow-list is what allowed_users.json holds, or the
\* administrator alone.
InitAccess ==
    /\ user_data = [u \in Users |-> NoSession]
    /\ files = {}
    /\ sig_files = {}
    /\ last = NoStep
    /\ bk = BkIdle /\ pf = PfIdle
    /\ cv = CvIdle /\ pr = PrIdle /\ sc = ScIdle /\ sw = SwIdle
    /\ \E allowed_users \in SUBSET Users :
           bot_data = [allowed_users |-> allowed_users]

\* A command of the administration that changes nothing: its sender is not
\* the administrator, or the user is already on the list (add_user), is not
\* on it or is the administrator (remove_user).
admin_command_refused(u) ==
    /\ \E handler \in {"add_user", "remove_user"} :
           last' = Step(handler, u, "refused", << >>, {}, "refused")
    /\ UNCHANGED <<user_data, files, sig_files, bk, pf, cv, pr, sc, sw, bot_data>>

\* add_user, handlers.py:112-131
add_user(u, new_user_id) ==
    /\ is_admin(u)
    /\ new_user_id \notin bot_data.allowed_users
    /\ bot_data' = [bot_data EXCEPT !.allowed_users = @ \cup {new_user_id}]
    /\ last' = Step("add_user", u, "added", << >>, {}, "added")
    /\ UNCHANGED <<user_data, files, sig_files, bk, pf, cv, pr, sc, sw>>

\* remove_user, handlers.py:139-164
remove_user(u, remove_id) ==
    /\ is_admin(u)
    /\ remove_id # ADMIN_ID
    /\ remove_id \in bot_data.allowed_users
    /\ bot_data' = [bot_data EXCEPT !.allowed_users = @ \ {remove_id}]
    /\ last' = Step("remove_user", u, "removed", << >>, {}, "removed")
    /\ UNCHANGED <<user_data, files, sig_files, bk, pf, cv, pr, sc, sw>>

\* handle_document_or_photo, lines 192-197: the sender is not on the
\* allow-list.
upload_denied(u) ==
    /\ ~Allowed(u)
    /\ last' = UploadStep(u, "access_denied", NoPath, << >>, {},
                    "access_denied")
    /\ UNCHANGED <<user_data, files, sig_files, bk, pf, cv, pr, sc, sw, bot_data>>

\* handle_document_or_photo past the check of lines 192-197.
upload_allowed(u) ==
    /\ Allowed(u)
    /\ \/ upload_refused(u)
       \/ upload_failed(u)
       \/ upload_uncounted(u)
       \/ upload_ready(u)
       \/ upload_single_page(u)

\* button_callback, lines 287-300: "start_scan" shows the scan menu to
\* anyone; the other scan buttons go to handle_scan_callback, which checks
\* the allow-list at lines 471-476 before it scans.
scan_button(u) ==
    IF Allowed(u) THEN button_scan(u)
    ELSE /\ \E reply \in {"scan_menu", "access_denied"} :
                last' = Step("button_callback", u, "scan", << >>, {}, reply)
         /\ UNCHANGED <<user_data, files, sig_files, bk, pf, cv, pr, sc, sw, bot_data>>

\* button_callback from line 302 on and handle_text_input: neither reads
\* the allow-list.
unchecked_handler(u) ==
    \/ button_no_session(u)
    \/ button_cancel(u)
    \/ button_print_normal_only(u)
    \/ button_print_mode(u)
    \/ button_print_booklet(u)
    \/ button_print_all(u)
    \/ button_print_custom(u)
    \/ button_back_to_menu(u)
    \/ unhandled_command(u)
    \/ handle_text_input_ignored(u)
    \/ handle_text_input(u)

NextAccess ==
    \E u \in Users :
        \/ admin_command_refused(u)
        \/ \E new_user_id \in Users : add_user(u, new_user_id)
        \/ \E remove_id \in Users : remove_user(u, remove_id)
        \/ upload_denied(u)
        \/ upload_allowed(u)
        \/ scan_button(u)
        \/ unchecked_handler(u)

SpecAccess == InitAccess /\ [][NextAccess]_vars

----------------------------------------------------------------------------
(* Properties of the booklet arithmetic, under SpecBooklet *)

Configured == bk.phase \in {"configured", "imposed"}

\* The least number of 4-page sheets that hold page_count pages.
LeastSheets(page_count) ==
    CHOOSE k \in 0..page_count : 4 * k >= page_count /\ 4 * (k - 1) < page_count

\* The least number of signatures of `sheets` sheets that hold total sheets.
LeastSignatures(total, sheets) ==
    CHOOSE m \in 0..total : m * sheets >= total /\ (m - 1) * sheets < total

\* C4: for every page count in 1..28 and every default >= 1 the configuration
\* is one signature of min(ceil(pageCount/4), default) sheets, totalSheets is
\* ceil(pageCount/4) and totalSheetsWithBlanks is the signature's sheets;
\* 20 pages with default 5 give (1, 5, 5, 5).
C4_SingleSignature ==
    (Configured /\ bk.page_count \in 1..28) =>
        LET ts == LeastSheets(bk.page_count)
            sps == IF ts <= bk.default_sheets THEN ts ELSE bk.default_sheets
        IN  /\ bk.config = <<1, sps, ts, sps>>
            /\ (bk.page_count = 20 /\ bk.default_sheets = 5)
                   => bk.config = <<1, 5, 5, 5>>

C4_Witness ==
    /\ bk.phase = "configured"
    /\ bk.page_count = 28 /\ bk.default_sheets = 5
    /\ bk.config = <<1, 5, 7, 5>>

\* C5: for every page count >= 29 and every default >= 1 each signature has
\* default sheets, there are ceil(ceil(pageCount/4)/default) signatures and
\* totalSheetsWithBlanks is their product; 40 pages with default 5 give
\* (2, 5, 10, 10).
C5_MultiSignature ==
    (Configured /\ bk.page_count >= 29) =>
        LET ts == LeastSheets(bk.page_count)
            n == LeastSignatures(ts, bk.default_sheets)
        IN  /\ bk.config[2] = bk.default_sheets
            /\ bk.config[1] = n
            /\ bk.config[4] = bk.default_sheets * n
            /\ (bk.page_count = 40 /\ bk.default_sheets = 5)
                   => bk.config = <<2, 5, 10, 10>>

C5_Witness ==
    /\ bk.phase = "configured"
    /\ bk.page_count = 29 /\ bk.default_sheets = 5
    /\ bk.config = <<2, 5, 8, 10>>

\* How often position idx is placed on a side of the signature.
Placements(sides, idx) ==
    Cardinality({k \in 1..Len(sides) : sides[k].left = idx})
    + Cardinality({k \in 1..Len(sides) : sides[k].right = idx})

\* C6: in every imposed signature of n = sheetsPerSignature*4 positions the
\* n/2 (left, right) pairs hold every position of [0, n) exactly once.
C6_PairingCoversOnce ==
    bk.phase = "imposed" =>
        \A s \in 1..Len(bk.output) :
            LET n == bk.config[2] * 4
                sides == bk.output[s].sides
            IN  /\ Len(sides) * 2 = n
                /\ \A idx \in 0..(n - 1) : Placements(sides, idx) = 1

C6_Witness ==
    /\ bk.phase = "imposed"
    /\ Len(bk.output) >= 2
    /\ Len(bk.output[2].sides) = 10
    /\ bk.output[2].sides[2] = [left |-> 1, right |-> 18]

\* The signature files were written: no imposition raised.
Imposed == bk.phase = "imposed" /\ ~bk.failed

\* The windows of the document that hold page index p.
WindowsOf(p) ==
    {s \in 1..Len(bk.output) : bk.output[s].start <= p /\ p < bk.output[s].end}

\* C28: the windows of the signatures partition [0, pageCount): they are
\* consecutive from 0 to pageCount, none is empty, every page index lies in
\* exactly one, every window but the last holds sheetsPerSignature*4 pages,
\* in every window actual pages + blank pages = sheetsPerSignature*4, and
\* the loop ends after ceil(pageCount / (sheetsPerSignature*4)) windows.
C28_WindowsPartition ==
    Imposed =>
        LET out == bk.output
            size == bk.config[2] * 4
        IN  /\ Len(out) >= 1
            /\ out[1].start = 0
            /\ out[Len(out)].end = bk.page_count
            /\ \A s \in 1..Len(out) :
                   /\ out[s].start < out[s].end
                   /\ out[s].actual_pages = out[s].end - out[s].start
                   /\ out[s].empty_pages >= 0
                   /\ out[s].actual_pages + out[s].empty_pages = size
                   /\ s > 1 => out[s].start = out[s - 1].end
                   /\ s < Len(out) => out[s].actual_pages = size
            /\ \A p \in 0..(bk.page_count - 1) : Cardinality(WindowsOf(p)) = 1
            /\ Len(out) * size >= bk.page_count
            /\ (Len(out) - 1) * size < bk.page_count

C28_Witness ==
    /\ Imposed
    /\ bk.page_count = 29 /\ bk.default_sheets = 5
    /\ Len(bk.output) = 2
    /\ bk.output[1].actual_pages = 20 /\ bk.output[1].empty_pages = 0
    /\ bk.output[2].start = 20 /\ bk.output[2].end = 29
    /\ bk.output[2].empty_pages = 11

\* The positions of a signature in the order they are read once its sheets
\* are nested, sheet 1 outermost, and folded: down the stack the right page
\* of each front and the left page of each back, then up the stack the
\* right page of each back and the left page of each front.
ReadingOrder(sides) ==
    LET sheets == Len(sides) \div 2
    IN  [p \in 1..(4 * sheets) |->
            IF p <= 2 * sheets
            THEN LET j == (p - 1) \div 2
                 IN  IF (p - 1) % 2 = 0 THEN sides[2 * j + 1].right
                     ELSE sides[2 * j + 2].left
            ELSE LET q == p - 2 * sheets - 1
                     j == sheets - 1 - (q \div 2)
                 IN  IF q % 2 = 0 THEN sides[2 * j + 2].right
                     ELSE sides[2 * j + 1].left]

\* C29: in every signature of n positions each side pairs two positions
\* that sum to n-1; side 0 carries (n-1, 0); sides 2j and 2j+1 carry
\* (n-1-2j, 2j) and (2j+1, n-2-2j); the nested and folded sheets read
\* 0, 1, ..., n-1.
C29_SignatureOrder ==
    bk.phase = "imposed" =>
        \A s \in 1..Len(bk.output) :
            LET n == bk.config[2] * 4
                sides == bk.output[s].sides
            IN  /\ \A k \in 1..Len(sides) :
                       sides[k].left + sides[k].right = n - 1
                /\ sides[1] = [left |-> n - 1, right |-> 0]
                /\ \A j \in 0..(bk.config[2] - 1) :
                       /\ sides[2 * j + 1] =
                              [left |-> n - 1 - 2 * j, right |-> 2 * j]
                       /\ sides[2 * j + 2] =
                              [left |-> 2 * j + 1, right |-> n - 2 - 2 * j]
                /\ ReadingOrder(sides) = [p \in 1..n |-> p - 1]

C29_Witness ==
    /\ bk.phase = "imposed"
    /\ bk.config[2] = 5
    /\ Len(bk.output) >= 1
    /\ bk.output[1].sides[3] = [left |-> 17, right |-> 2]
    /\ bk.output[1].sides[4] = [left |-> 3, right |-> 16]

RECURSIVE SheetsImposed(_)
\* The physical sheets of the signature files: two sides to a sheet.
SheetsImposed(output) ==
    IF output = << >> THEN 0
    ELSE Len(Head(output).sides) \div 2 + SheetsImposed(Tail(output))

\* C33: for every page count >= 2 the booklet produced agrees with the
\* configuration shown: as many signature files as numSignatures, as many
\* sheets imposed as totalSheetsWithBlanks, and totalSheetsWithBlanks is at
\* least totalSheets.
C33_ProducedMatchesShown ==
    (Imposed /\ bk.page_count >= 2) =>
        /\ Len(bk.output) = bk.config[1]
        /\ SheetsImposed(bk.output) = bk.config[4]
        /\ bk.config[4] >= bk.config[3]

----------------------------------------------------------------------------
(* Properties of print_file_postscript, under SpecPrint *)

Returned == pf.phase = "returned"

RunsOf(which) == {i \in 1..Len(pf.runs) : pf.runs[i].cmd.which = which}

PrimaryExited(outcome) ==
    \E i \in RunsOf("primary") : pf.runs[i].outcome = outcome

\* C7: the call returns true exactly when the primary command exits 0, or
\* the primary exits non-zero and the simplified command (paper size and
\* fit-to-page only) exits 0; the simplified command is run at most once and
\* never after a primary that succeeded.
C7_ReturnValue ==
    Returned =>
        /\ pf.ret <=>
               \/ PrimaryExited("exit0")
               \/ /\ PrimaryExited("nonzero")
                  /\ \E j \in RunsOf("simple") : pf.runs[j].outcome = "exit0"
        /\ Cardinality(RunsOf("simple")) <= 1
        /\ PrimaryExited("exit0") => RunsOf("simple") = {}
        /\ \A j \in RunsOf("simple") :
               /\ pf.runs[j].cmd.options = {"PageSize=A4", "fit-to-page"}
               /\ pf.runs[j].cmd.page_ranges = None

C7_Witness ==
    /\ Returned
    /\ pf.ret
    /\ Len(pf.runs) = 2
    /\ pf.runs[1].outcome = "nonzero"
    /\ pf.runs[2].cmd.which = "simple" /\ pf.runs[2].outcome = "exit0"

\* C8: with the page range absent or well-formed, failure is returned only
\* after the simplified command was attempted, however the primary failed.
C8_FailureOnlyAfterFallback ==
    (/\ Returned
     /\ pf.page_range = None \/ page_range_syntax_ok(pf.page_range)
     /\ ~pf.ret)
        => RunsOf("simple") # {}

\* C9: a page range holding any character other than a digit, a comma or a
\* hyphen makes the call fail without running any command.
C9_BadRangeRunsNothing ==
    (/\ Returned
     /\ \E i \in 1..Len(pf.page_range) :
            pf.page_range[i] \notin DIGITS \cup {",", "-"})
        => (~pf.ret /\ pf.runs = << >>)

----------------------------------------------------------------------------
(* Properties of the session dialogue, under Spec *)

\* The last update made a print attempt: it called print_file_postscript, or
\* it was a booklet print whose imposition gave no file (handlers.py:367-369).
Dispatched ==
    \/ last.prints # << >>
    \/ /\ last.branch = "print_booklet"
       /\ last.reply = "booklet_not_created"

\* The files the calls of the last update were given.
Submitted == {last.prints[i].file : i \in 1..Len(last.prints)}

\* C1: every print attempt (the automatic print of a single page,
\* print_normal_only, print_all, an accepted custom range, the booklet) ends
\* with the user's session empty and the session's file deleted, whether the
\* spooler succeeded or failed.
C1_PrintEndsSession ==
    Dispatched =>
        /\ user_data[last.user] = NoSession
        /\ last.artifact # NoPath
        /\ last.artifact \notin OnDisk
        /\ Submitted \cap OnDisk = {}

C1_Witness ==
    /\ last.handler = "handle_text_input"
    /\ last.branch = "accepted"
    /\ Len(last.prints) = 1
    /\ ~last.prints[1].ret
    /\ last.reply = "print_error"
    /\ user_data[last.user] = NoSession

\* C2: in every state in which a session owns a file the cancel button can
\* be pressed, and pressing it empties the session, deletes the file and
\* submits nothing to the spooler.
C2_CancelLeadsToIdle ==
    /\ \A u \in Users :
           HasSession(u) =>
               ENABLED (/\ button_cancel(u)
                        /\ user_data'[u] = NoSession
                        /\ user_data[u].pdf_path \notin files' \cup sig_files'
                        /\ last'.prints = << >>)
    /\ (last.handler = "button_callback" /\ last.branch = "cancel") =>
           /\ user_data[last.user] = NoSession
           /\ last.artifact # NoPath
           /\ last.artifact \notin OnDisk
           /\ last.prints = << >>

\* A cancel while the other user's session goes on.
C2_Witness ==
    /\ last.handler = "button_callback"
    /\ last.branch = "cancel"
    /\ last.deleted = {last.artifact}
    /\ user_data[last.user] = NoSession
    /\ \E u \in Users \ {last.user} :
           HasSession(u) /\ user_data[u].pdf_path \in files

\* C3: whenever a session stops referencing its file (a cancel, a finished
\* print, a new upload over a pending session) that file is deleted.
C3_DroppedFileIsDeleted ==
    [][\A u \in Users :
           (HasSession(u) /\ user_data'[u].pdf_path # user_data[u].pdf_path)
               => user_data[u].pdf_path \notin files']_vars

\* The last update was a booklet print that submitted something and whose
\* report (handlers.py:381-385) was sent.
BookletReported ==
    /\ last.branch = "print_booklet"
    /\ last.prints # << >>
    /\ last.reply \in {"booklet_sent", "booklet_print_error"}

\* The signature files create_booklet_for_short_edge made for the last
\* update: what it removed, the session's file apart.
SignatureFiles == last.deleted \ {last.artifact}

\* C10: a booklet print is reported as sent exactly when every signature
\* file made for it was submitted and its submission returned True.
C10_BookletSuccessIsAll ==
    BookletReported =>
        (last.reply = "booklet_sent"
            <=> \A f \in SignatureFiles :
                    \E i \in 1..Len(last.prints) :
                        last.prints[i].file = f /\ last.prints[i].ret)

C10_Witness ==
    /\ BookletReported
    /\ Cardinality(SignatureFiles) = 2
    /\ Len(last.prints) = 2
    /\ last.prints[1].ret
    /\ ~last.prints[2].ret
    /\ last.reply = "booklet_print_error"

\* An imposition that raises at any signature window of a document makes
\* create_booklet_for_short_edge return the empty list.
ImpositionFailureGivesNoFiles ==
    \A num_pages \in PageCounts :
        \A fail_at \in 1..Len(signature_configs(
                               num_pages, calculate_signature_config(
                                   num_pages, DEFAULT_SHEETS_PER_SIGNATURE)[2])) :
            create_booklet_for_short_edge(
                num_pages,
                calculate_signature_config(
                    num_pages, DEFAULT_SHEETS_PER_SIGNATURE)[2],
                fail_at) = << >>

\* The last update was a booklet print whose imposition gave no file.
BookletAborted ==
    /\ last.branch = "print_booklet"
    /\ last.reply = "booklet_not_created"

\* C11: a failed imposition returns the empty list, and the booklet print
\* that met it submits nothing to the spooler, tells the user of the failure,
\* clears the session and deletes the session's file.
C11_ImpositionFailureAborts ==
    /\ ImpositionFailureGivesNoFiles
    /\ BookletAborted =>
           /\ last.prints = << >>
           /\ user_data[last.user] = NoSession
           /\ last.artifact # NoPath
           /\ last.artifact \notin OnDisk
           /\ last.deleted = {last.artifact}

\* The imposition failed at the second signature window of a document.
C11_Witness ==
    /\ BookletAborted
    /\ last.artifact # NoPath
    /\ sig_files # {}

\* The step taken printed the artifact that the same user's upload, the
\* step before it, had just made ready: no step of the selection dialog
\* lies between the upload and the dispatch.
DispatchedFromUpload ==
    /\ last.handler = "handle_document_or_photo"
    /\ last.branch = "ready"
    /\ last'.user = last.user
    /\ last'.artifact = last.artifact
    /\ last'.prints # << >>

\* C27: a normal or duplex print of an artifact of several pages is
\* dispatched only after a mode step and then a range step for that
\* artifact; hence the only step that dispatches an artifact straight
\* after its upload is the booklet mode's.
C27_ModeThenRangeThenDispatch ==
    [][DispatchedFromUpload => last'.branch = "print_booklet"]_vars

\* The step taken handled an upload that was refused (lines 211-213 and
\* 232-234) or whose download, conversion or page count raised.
UploadUnsuccessful ==
    /\ last'.handler = "handle_document_or_photo"
    /\ last'.branch \in {"refused", "failed", "uncounted"}

\* C31: an upload that is refused, or whose download, conversion or page
\* count fails, leaves every session as it was, removes no file, prints
\* nothing, and its handler ends with a message to the user.
C31_UnsuccessfulUploadKeepsSession ==
    [][UploadUnsuccessful =>
           /\ user_data' = user_data
           /\ files \subseteq files'
           /\ sig_files' = sig_files
           /\ last'.deleted = {}
           /\ last'.prints = << >>
           /\ last'.reply \in {"too_big_or_unsupported", "no_conversion",
                               "processing_error"}]_vars

C31_Witness ==
    /\ last.handler = "handle_document_or_photo"
    /\ last.branch = "uncounted"
    /\ HasSession(last.user)
    /\ user_data[last.user].awaiting_custom_range
    /\ user_data[last.user].print_mode = "duplex"
    /\ user_data[last.user].pdf_path \in files
    /\ user_data[last.user].pdf_path # last.artifact

\* The call was answered by a command that exited 0 and carried the duplex
\* policy and the page range the call was made with.
SucceededAsAsked(call) ==
    \E r \in 1..Len(call.runs) :
        /\ call.runs[r].outcome = "exit0"
        /\ duplex_options(call.booklet, call.duplex)
               \subseteq call.runs[r].cmd.options
        /\ call.runs[r].cmd.page_ranges = call.page_range

\* C34: whenever a print with a duplex mode or a custom page range is
\* reported as sent, the command that succeeded carried that duplex policy
\* and that page range.
C34_SentAsAsked ==
    last.reply \in {"sent", "booklet_sent"} =>
        \A i \in 1..Len(last.prints) :
            (last.prints[i].duplex \/ last.prints[i].page_range # None)
                => SucceededAsAsked(last.prints[i])

\* The step before this state was a booklet print whose imposition gave
\* its signature files.
BookletSubmitted ==
    /\ last.handler = "button_callback"
    /\ last.branch = "print_booklet"
    /\ last.prints # << >>

\* C35: the signature files of a booklet print are submitted in signature
\* order, first to last with none left out, and none after a submission
\* that failed; when the handler reports, every signature file and the
\* session's artifact are off the disk and the session is cleared.
C35_BookletSubmission ==
    BookletSubmitted =>
        /\ \A i \in 1..Len(last.prints) :
               /\ last.prints[i].file \in SignatureFiles
               /\ Cardinality({f \in SignatureFiles : f < last.prints[i].file})
                      = i - 1
               /\ i < Len(last.prints) => last.prints[i].ret
        /\ last.prints[Len(last.prints)].ret
               => Len(last.prints) = Cardinality(SignatureFiles)
        /\ SignatureFiles \cap OnDisk = {}
        /\ last.artifact \notin OnDisk
        /\ ~HasSession(last.user)

C35_Witness ==
    /\ BookletSubmitted
    /\ Cardinality(SignatureFiles) = 2
    /\ Len(last.prints) = 1
    /\ ~last.prints[1].ret
    /\ last.artifact \in last.deleted
    /\ last.reply = "booklet_print_error"

\* The step taken handled a text message of a user whose session was not
\* waiting for a custom range.
TextWhileNotWaiting ==
    /\ last'.handler = "handle_text_input"
    /\ ~user_data[last'.user].awaiting_custom_range

\* C36: in every reachable state a session that waits for a custom range
\* owns an artifact; and a text message handled while its sender's session
\* does not wait changes no session, removes and makes no file and submits
\* no print.
C36_WaitingNeedsArtifact ==
    /\ [](\A u \in Users : user_data[u].awaiting_custom_range => HasSession(u))
    /\ [][TextWhileNotWaiting =>
              /\ user_data' = user_data
              /\ files' = files
              /\ sig_files' = sig_files
              /\ last'.prints = << >>
              /\ last'.deleted = {}]_vars

C36_Witness ==
    /\ last.handler = "handle_text_input"
    /\ last.branch = "ignored"
    /\ HasSession(last.user)
    /\ ~user_data[last.user].awaiting_custom_range
    /\ user_data[last.user].pdf_path \in files
    /\ \E v \in Users : user_data[v].awaiting_custom_range

\* The files the step taken left on disk that were not there before it.
LeftOnDisk == (files' \cup sig_files') \ (files \cup sig_files)

\* C37: every temporary file a conversion or an imposition leaves on disk
\* is a session's artifact when its handler ends: nothing a step produced
\* stays on disk unreferenced, also when the page count fails after the
\* conversion or the imposition fails after its first signatures.
C37_NothingLeftUnreferenced ==
    [][\A f \in LeftOnDisk :
           \E u \in Users : user_data'[u].pdf_path = f]_vars

-----------------------------------------------------------------------------
(* Properties of the conversion of an upload, under SpecConvert *)

\* The conversion of the upload in cv ran as far as the grayscale stage: the
\* upload is a PDF, or its office or image stage made a PDF.
ReachedGrayscale ==
    /\ cv.phase = "done"
    /\ cv.route # "none"
    /\ \/ cv.file_ext = ".pdf"
       \/ cv.stage.run = "exit0" /\ cv.stage.output_exists

\* The rasterizer timed out, exited non-zero, could not be spawned, or left
\* no output or an undersized one.
GrayscaleFailed ==
    \/ cv.gs.run \in {"timeout", "nonzero", "spawn_fail"}
    \/ ~cv.gs.output.exists
    \/ cv.gs.output.size < GRAY_MIN_SIZE

\* Telegram took every status update of the conversion.
StatusDelivered == \A site \in StatusSites : cv.tg[site] # "down"

\* The PDF the grayscale stage was given.
PreGrayscale == IF cv.file_ext = ".pdf" THEN "upload" ELSE "converted"

C13_StatusFailureChangesNothing ==
    cv.phase = "done" =>
        LET reference == upload_conversion(cv.file_ext, cv.stage, cv.gs,
                                           AllDelivered)
        IN  /\ cv.result.raised = reference.raised
            /\ cv.result.pdf = reference.pdf

\* The office or image stage of the upload in cv failed: its command timed
\* out, exited non-zero or could not be spawned, or its PDF did not appear.
FirstStageFailed ==
    /\ cv.phase = "done"
    /\ cv.route \in {"office", "image"}
    /\ \/ cv.stage.run \in {"timeout", "nonzero", "spawn_fail"}
       \/ ~cv.stage.output_exists

\* C14: a failure of the office or image stage raises to the upload handler,
\* no PDF is returned and no session is created; a conversion that returns
\* after a failed stage failed in its grayscale stage only.
C14_StageFailurePropagates ==
    /\ FirstStageFailed =>
           /\ cv.result.raised
           /\ cv.result.pdf = "none"
           /\ ~cv.session
    /\ (/\ cv.phase = "done"
        /\ cv.route # "none"
        /\ ~cv.result.raised
        /\ cv.result.pdf # "gray")
           => (ReachedGrayscale /\ GrayscaleFailed)

C14_Witness ==
    /\ FirstStageFailed
    /\ is_office_document(cv.file_ext)
    /\ cv.stage.run = "exit0"
    /\ StatusDelivered
    /\ cv.countable
    /\ ~cv.session

\* The stages of each conversion route, in the order they run.
RouteStages ==
    [pdf    |-> <<"grayscale">>,
     office |-> <<"office_to_pdf", "grayscale">>,
     image  |-> <<"image_to_pdf", "grayscale">>]

\* The stages that ran are the first stages of the route, in its order.
StagesInOrder(route) ==
    /\ Len(cv.result.stages) <= Len(RouteStages[route])
    /\ cv.result.stages = SubSeq(RouteStages[route], 1, Len(cv.result.stages))

\* The route that the kind of the upload in cv calls for.
RouteOfKind ==
    IF cv.file_ext = ".pdf" THEN {"pdf"}
    ELSE {route \in {"office", "image"} :
             \/ route = "office" /\ is_office_document(cv.file_ext)
             \/ route = "image" /\ is_image_file(cv.file_ext)}

\* C26: every upload that passed the acceptance check took exactly one of
\* the three conversion routes, the one of its kind, and the stages that
\* ran are that route's, in order: grayscale only for a PDF, office-to-PDF
\* then grayscale for an office document, image-to-PDF then grayscale for an
\* image.
C26_RoutedInOrder ==
    cv.phase = "done" =>
        /\ cv.route \in {"pdf", "office", "image"}
        /\ RouteOfKind = {cv.route}
        /\ StagesInOrder(cv.route)

\* C32: the grayscale stage accepts its output only if the file exists and
\* is larger than 1024 bytes; with an output of 1024 bytes or less the
\* conversion returns a copy of the PDF the stage was given.
C32_AcceptsOnlyOverOneKiB ==
    (ReachedGrayscale /\ ~cv.result.raised) =>
        /\ cv.result.pdf = "gray" =>
               /\ cv.gs.output.exists
               /\ cv.gs.output.size > 1024
        /\ (cv.gs.output.exists /\ cv.gs.output.size <= 1024) =>
               cv.result.pdf = PreGrayscale

-----------------------------------------------------------------------------
(* Properties of the command runner, under SpecRunner *)

\* The command was still running at its timeout.
TimedOut == pr.terminated

\* C15: a runner whose command was still running at its timeout, and was
\* asked to terminate, returns, also when the child ignores the request.
C15_TimeoutReturns == TimedOut ~> (pr.phase = "returned")

-----------------------------------------------------------------------------
(* Properties of the acquisition, under SpecScan *)

BatchDone == sc.phase = "done" /\ sc.source = "ADF"

\* The number k of numbered pages the batch command wrote: scan_1.pnm to
\* scan_k.pnm hold data and scan_(k+1).pnm does not.
WrittenPages ==
    CHOOSE k \in 0..MaxScanPages :
        /\ \A n \in 1..k : sc.batch.numbered[n] = "data"
        /\ k < MaxScanPages => sc.batch.numbered[k + 1] # "data"

\* C16: a batch scan that timed out after k >= 1 numbered pages were written
\* returns exactly those k pages.
C16_TimeoutKeepsPages ==
    (BatchDone /\ sc.batch.run = "timeout" /\ WrittenPages >= 1) =>
        /\ ~sc.result.raised
        /\ sc.result.pages = [n \in 1..WrittenPages |-> n]

\* A page was captured: a numbered page was written, or the unnumbered file
\* holds data.
Captured == WrittenPages >= 1 \/ sc.batch.alt = "data"

\* C17: scan_multiple_pages fails exactly when no page was captured, and
\* what it returns is never empty.
C17_FailureIffNoPages ==
    BatchDone =>
        /\ sc.result.raised <=> ~Captured
        /\ ~sc.result.raised => sc.result.pages # << >>

\* The batch command returned to scan_multiple_pages: it exited, with
\* whatever code.
BatchReturned == BatchDone /\ sc.batch.run \in {"exit0", "nonzero"}

\* C30: after the batch command returns, the pages collected are the files
\* scan_1.pnm to scan_k.pnm, in this order, where k is the first number
\* whose successor is missing or empty: a file beyond the first gap is not
\* collected.  The unnumbered scan.pnm is taken only when k = 0, and then
\* it is the one page.
C30_GapFreePrefix ==
    BatchReturned =>
        IF WrittenPages >= 1
        THEN /\ ~sc.result.raised
             /\ sc.result.pages = [n \in 1..WrittenPages |-> n]
        ELSE IF sc.batch.alt = "data"
        THEN /\ ~sc.result.raised
             /\ sc.result.pages = <<AltPage>>
        ELSE sc.result.raised

C30_Witness ==
    /\ BatchReturned
    /\ sc.batch.numbered = <<"data", "empty", "data">>
    /\ sc.batch.alt = "data"
    /\ sc.result.pages = <<1>>

Detected == sc.phase \in {"scan", "done"}

\* The lines of the listing that name a device.
NamingLines ==
    {i \in 1..Len(sc.listing.output) :
        sc.listing.output[i].device /\ sc.listing.output[i].quoted # "none"}

\* C18: auto_detect_scanner always returns a device: the first one the
\* listing names when the listing command exited 0 and names one, the
\* configured default in every other case.
C18_DetectionNeverFails ==
    Detected =>
        IF sc.listing.run = "exit0" /\ NamingLines # {}
        THEN \E i \in NamingLines :
                 /\ \A j \in NamingLines : i <= j
                 /\ sc.scanner = sc.listing.output[i].quoted
        ELSE sc.scanner = SCANNER_DEVICE

C18_Witness ==
    /\ Detected
    /\ sc.listing.run = "exit0"
    /\ Len(sc.listing.output) = 2
    /\ ~sc.listing.output[1].device
    /\ sc.listing.output[1].quoted = "a"
    /\ sc.scanner = "b"

\* C38: when a scan interaction ends, by success or by an error of the
\* merge or of the delivery, none of its page files and no merged PDF is
\* on disk; and it has changed no print session.
C38_ScanLeavesNothing ==
    sc.phase = "ended" =>
        /\ sc.delivery.left = {}
        /\ ~sc.delivery.pdf_left
        /\ \A u \in Users : user_data[u] = NoSession

-----------------------------------------------------------------------------
(* Properties of the custom range dialogue, under Spec *)

\* The longest text the two definitions of a page range are compared on.
MaxGrammarLen == 4

\* text[a..b] is a digit string or digits-hyphen-digits.
IsRangeToken(text, a, b) ==
    /\ a <= b
    /\ \A i \in a..b : text[i] \in DIGITS \cup {"-"}
    /\ text[a] \in DIGITS
    /\ text[b] \in DIGITS
    /\ Cardinality({i \in a..b : text[i] = "-"}) <= 1

\* text is a comma-separated list of such tokens.
IsRangeList(text) ==
    LET cuts == {0, Len(text) + 1} \cup {i \in 1..Len(text) : text[i] = ","}
    IN  \A a \in cuts, b \in cuts :
            (a < b /\ ~\E c \in cuts : a < c /\ c < b)
                => IsRangeToken(text, a + 1, b - 1)

\* handle_text_input takes a text for a page range exactly when it is such
\* a list: for every short text, every text drawn, and the three examples.
GrammarAgrees ==
    /\ \A text \in SeqsUpTo(DIGITS \cup {",", "-", "a"}, MaxGrammarLen)
                       \cup StrippedTexts :
           page_range_syntax_ok(text) <=> IsRangeList(text)
    /\ AcceptedTexts = {text \in StrippedTexts \ CancelTexts : IsRangeList(text)}
    /\ <<"1", "-", "1", ",", "1", ",", "1", "-", "1">> \in AcceptedTexts
    /\ <<"1", "-", "1", ";", "1">> \in RejectedTexts
    /\ <<"a", "a", "a">> \in RejectedTexts

\* C19: while a custom range is awaited, a text is accepted exactly when it
\* is a comma-separated list of tokens, each digits or digits-hyphen-digits;
\* a rejected text changes nothing of the session and prints nothing; an
\* accepted text makes one print of the session's file with that range,
\* two-sided exactly when the session's mode is duplex.
C19_CustomRangeInput ==
    [][/\ GrammarAgrees
       /\ (last'.handler = "handle_text_input" /\ last'.branch = "rejected") =>
              /\ user_data[last'.user].awaiting_custom_range
              /\ user_data' = user_data
              /\ files' = files
              /\ last'.prints = << >>
       /\ (last'.handler = "handle_text_input" /\ last'.branch = "accepted"
               /\ last'.prints # << >>) =>
              /\ user_data[last'.user].awaiting_custom_range
              /\ Len(last'.prints) = 1
              /\ last'.prints[1].file = user_data[last'.user].pdf_path
              /\ last'.prints[1].file \in files
              /\ IsRangeList(last'.prints[1].page_range)
              /\ last'.prints[1].page_range \in AcceptedTexts
              /\ Len(last'.prints[1].runs) >= 1
              /\ last'.prints[1].runs[1].cmd.page_ranges
                     = last'.prints[1].page_range
              /\ ~last'.prints[1].booklet
              /\ last'.prints[1].duplex
                     <=> user_data[last'.user].print_mode = "duplex"]_vars

C19_Witness ==
    /\ last.handler = "handle_text_input"
    /\ last.branch = "accepted"
    /\ Len(last.prints) = 1
    /\ last.prints[1].page_range = <<"1", "-", "1", ",", "1", ",", "1", "-", "1">>
    /\ last.prints[1].duplex
    /\ last.prints[1].ret

\* C20: a user whose custom range is awaited and who sends /cancel is no
\* longer awaited a range from; the session keeps its file and its page
\* count, and nothing is printed.
C20_CancelTokenLeavesPending ==
    [][\A u \in Users :
           (user_data[u].awaiting_custom_range /\ text_update(u, <<"/cancel">>))
               => /\ ~user_data'[u].awaiting_custom_range
                  /\ user_data'[u].pdf_path = user_data[u].pdf_path
                  /\ user_data'[u].page_count = user_data[u].page_count
                  /\ last'.prints = << >>]_vars

-----------------------------------------------------------------------------
(* Properties of the upload of a single page, under Spec *)

\* The last update was an upload of one page that went past the
\* announcement of handlers.py:252.
SinglePagePrinted ==
    /\ last.handler = "handle_document_or_photo"
    /\ last.branch = "single_page"
    /\ last.reply # "processing_error"

\* C21: an upload of one page is printed at once, one-sided and with no page
\* range, with no prompt for a mode or a range; afterwards the session is
\* empty and the file is gone.  An upload that asks for a mode has several
\* pages.
C21_SinglePagePrintsAtOnce ==
    /\ SinglePagePrinted =>
           /\ Len(last.prints) = 1
           /\ last.prints[1].file = last.artifact
           /\ ~last.prints[1].booklet
           /\ ~last.prints[1].duplex
           /\ last.prints[1].page_range = None
           /\ "sides=one-sided" \in last.prints[1].runs[1].cmd.options
           /\ last.prints[1].runs[1].cmd.page_ranges = None
           /\ last.reply \in {"sent", "print_error"}
           /\ user_data[last.user] = NoSession
           /\ last.artifact \notin OnDisk
           /\ last.deleted = {last.artifact}
    /\ (last.handler = "handle_document_or_photo" /\ last.reply = "choose_mode")
           => user_data[last.user].page_count >= 2

C21_Witness ==
    /\ SinglePagePrinted
    /\ last.prints[1].ret
    /\ last.reply = "sent"
    /\ \E u \in Users \ {last.user} : HasSession(u)

-----------------------------------------------------------------------------
(* Properties of the primary command line, under SpecPrint *)

\* The call in pf built its primary command and ran it.
PrimaryBuilt == pf.phase = "returned" /\ pf.runs # << >>

SidesOptions ==
    {"sides=one-sided", "sides=two-sided-long-edge", "sides=two-sided-short-edge"}

TumbleOptions == {"Duplex=None", "Duplex=DuplexNoTumble", "Duplex=DuplexTumble"}

QualityOptions == {"Quality=300dpi", "Quality=600dpi"}

\* C22: the primary command carries one duplex policy and one resolution:
\* short edge with tumble and 300dpi for a booklet, whatever the duplex
\* flag; else long edge without tumble and 600dpi for duplex; else one-sided
\* and 600dpi.  A4 and fit-to-page are always there, and page-ranges is
\* there exactly when a range was given.
C22_PrimaryCommandLine ==
    PrimaryBuilt =>
        LET cmd == pf.runs[1].cmd
        IN  /\ cmd.which = "primary"
            /\ cmd.options \cap SidesOptions =
                   {IF pf.booklet THEN "sides=two-sided-short-edge"
                    ELSE IF pf.duplex THEN "sides=two-sided-long-edge"
                    ELSE "sides=one-sided"}
            /\ cmd.options \cap TumbleOptions =
                   {IF pf.booklet THEN "Duplex=DuplexTumble"
                    ELSE IF pf.duplex THEN "Duplex=DuplexNoTumble"
                    ELSE "Duplex=None"}
            /\ cmd.options \cap QualityOptions =
                   {IF pf.booklet THEN "Quality=300dpi" ELSE "Quality=600dpi"}
            /\ {"PageSize=A4", "fit-to-page"} \subseteq cmd.options
            /\ cmd.page_ranges # None <=> pf.page_range # None
            /\ cmd.page_ranges = pf.page_range

C22_Witness ==
    /\ PrimaryBuilt
    /\ pf.booklet
    /\ pf.duplex
    /\ pf.page_range = <<"1", "-", "1">>
    /\ "Quality=300dpi" \in pf.runs[1].cmd.options

-----------------------------------------------------------------------------
(* Properties of the sessions of several users, under Spec *)

\* C23: an update of one user leaves the session of every other user, and
\* the file it owns, as they were; no step changes two users' sessions.
C23_UsersIndependent ==
    [][/\ \A v \in Users \ {last'.user} :
              /\ user_data'[v] = user_data[v]
              /\ HasSession(v) =>
                     (user_data[v].pdf_path \in files
                          <=> user_data[v].pdf_path \in files')
       /\ \A u \in Users, v \in Users :
              (user_data'[u] # user_data[u] /\ user_data'[v] # user_data[v])
                  => u = v]_vars

C23_Witness ==
    /\ last.branch = "print_booklet"
    /\ last.prints # << >>
    /\ \E v \in Users \ {last.user} :
           /\ HasSession(v)
           /\ user_data[v].awaiting_custom_range
           /\ user_data[v].pdf_path \in files

-----------------------------------------------------------------------------
(* Properties of repeated interactions, under Spec *)

\* The update taken by this step is one that can dispatch a print or delete
\* a file: a button of the print keyboards or a text message.
TriggerStep ==
    \/ last'.handler = "button_callback" /\ last'.branch # "scan"
    \/ last'.handler = "handle_text_input"

\* C24: a print dispatch or a cancel leaves its user without a session, and
\* a button press or a text that arrives while its user has no session
\* submits nothing to the spooler, deletes no file and changes no session:
\* the file of a session is dispatched at most once.
C24_DispatchedOnce ==
    [][/\ (\/ last'.prints # << >>
           \/ last'.handler = "button_callback" /\ last'.branch = "cancel") =>
              /\ user_data'[last'.user] = NoSession
              /\ \A i \in 1..Len(last'.prints) : last'.prints[i].file \notin files'
       /\ (TriggerStep /\ ~HasSession(last'.user)) =>
              /\ last'.prints = << >>
              /\ last'.deleted = {}
              /\ files' = files
              /\ sig_files' = sig_files
              /\ user_data' = user_data]_vars

\* A button pressed with no session left, after uploads and a booklet print
\* have come and gone.
C24_Witness ==
    /\ last.branch = "no_session"
    /\ last.reply = "session_expired"
    /\ \A v \in Users : ~HasSession(v)
    /\ files # {}
    /\ sig_files # {}

-----------------------------------------------------------------------------
(* Properties of the sweep, under SpecSweep *)

\* File i is in the temporary directory of the running process, its name
\* matches the sweep's prefixes and it is older than one hour.
Stale(i) ==
    /\ sw.phase = "polling"
    /\ sw.tmp[i].present
    /\ sw.tmp[i].matching
    /\ sw.tmp[i].age > Hour

\* C25: while the process runs, a matching temporary file older than one
\* hour is eventually deleted.
C25_SweepReclaims ==
    \A i \in 1..MaxTmpFiles : Stale(i) ~> ~sw.tmp[i].present

-----------------------------------------------------------------------------
(* Properties of the access control, under SpecAccess *)

\* The step taken converted an upload, submitted a print or acquired a scan
\* for the user of the update.
ActedForUser ==
    \/ /\ last'.handler = "handle_document_or_photo"
       /\ last'.branch \in {"failed", "uncounted", "ready", "single_page"}
    \/ last'.prints # << >>
    \/ /\ last'.handler = "button_callback"
       /\ last'.branch = "scan"
       /\ last'.reply \in {"scan_sent", "scan_error"}

\* C39: a conversion, a print submission or a scan acquisition is performed
\* for a user only if the user is on the allow-list when the update that
\* triggers it is handled.
C39_OnlyAllowedUsersAct ==
    [][ActedForUser => last'.user \in bot_data.allowed_users]_vars

====
